---- MODULE Spec2Model ----
(***************************************************************************)
(* State-machine model of llmpeg's local state management: the             *)
(* HistoryManager (history.ts) and the PresetManager (presets.ts).         *)
(*                                                                         *)
(* Conventions.                                                            *)
(*  - A JavaScript string that the code inspects character by character    *)
(*    (prompt, command) is a tuple of one-character strings; a string the   *)
(*    code only stores and compares is a TLA+ string.                      *)
(*  - An optional field is None (undefined) or Some(v).                     *)
(*  - A parsed JSON object is a function whose domain is the set of keys   *)
(*    present in the object.                                               *)
(*  - crypto.randomBytes(8) and Math.random() are modelled as generators  *)
(*    that never repeat a value they have issued (nextId, nextRandom);     *)
(*    history ids are natural numbers >= 1.                                *)
(*  - A behaviour is at most MaxOps steps long (steps counts them).         *)
(*  - The file system is reliable: mkdirSync and writeFileSync succeed.    *)
(*  - maxHistorySize and DayMs are the program's constants scaled down     *)
(*    (1000 -> 2 entries, 86400000 ms -> 1 clock unit).                   *)
(***************************************************************************)
EXTENDS Integers, Sequences, FiniteSets, TLC

VARIABLES
    history,      \* HistoryManager.history: the in-memory array of entries
    file,         \* ~/.llmpeg/history.json
    now,          \* Date.now()
    nextId,       \* the next value of crypto.randomBytes(8)
    lastOp,       \* name of the operation that ran last
    lastDays,     \* the daysToKeep argument of the last clearOldEntries
    lastResult,   \* what the last operation returned (0 for void)
    trimmed,      \* the entries the last save() cut off
    addsOnly,     \* the store started empty and only add ran, nothing trimmed
    addCount,     \* while addsOnly: number of add calls per (prompt, command)
    steps,        \* number of steps taken so far
    customPresets, \* PresetManager.customPresets
    presetsFile,  \* ~/.llmpeg/presets.json
    nextRandom,   \* the next value of Math.random()
    customIsArray, \* whether the value held by this.customPresets is an array
    out,          \* what the last exportHistory or buildPromptFromPreset gave
    cli,          \* the last command of the front end: its generation attempt
                  \* and the entries it passed to historyManager.add
    config,       \* ConfigManager.config
    configFile,   \* ~/.llmpeg/config.json
    systemEnv,    \* the environment variables the process is started with
    dotenv        \* .env, .env.local and ~/.llmpeg/.env

hvars ==
    <<history, file, now, nextId, lastOp, lastDays, lastResult, trimmed,
      addsOnly, addCount, steps>>

pvars == <<customPresets, presetsFile, nextRandom, customIsArray>>

cvars == <<config, configFile, systemEnv, dotenv>>

vars == <<hvars, pvars, out, cli, cvars>>

(***************************************************************************)
(* Bounds of the model.                                                    *)
(***************************************************************************)
MaxOps == 4

(***************************************************************************)
(* Program constants.                                                      *)
(***************************************************************************)
maxHistorySize == 2

DayMs == 1

(***************************************************************************)
(* JavaScript values.                                                      *)
(***************************************************************************)
\* the value of out before any exportHistory or buildPromptFromPreset
NoOutput == [kind |-> "none", text |-> ""]

\* a call that returned the string s, a call that threw
Returned(s) == [kind |-> "returned", text |-> s]

Threw(message) == [kind |-> "threw", text |-> message]

\* the front end before any command, the configuration before it is loaded
\* on a machine without configuration
NoCommand ==
    [command |-> "none", generation |-> "none", generated |-> <<>>,
     message |-> "", recorded |-> <<>>, calls |-> <<>>]

AtRest ==
    /\ cli = NoCommand
    /\ config = <<>>
    /\ configFile = [kind |-> "absent", doc |-> <<>>]
    /\ systemEnv = <<>>
    /\ dotenv = <<<<>>, <<>>, <<>>>>

None == <<>>

Some(v) == <<v>>

Lower(c) ==
    CASE c = "A" -> "a" [] c = "B" -> "b" [] c = "C" -> "c" [] c = "D" -> "d"
      [] c = "E" -> "e" [] c = "F" -> "f" [] c = "G" -> "g" [] c = "H" -> "h"
      [] c = "I" -> "i" [] c = "J" -> "j" [] c = "K" -> "k" [] c = "L" -> "l"
      [] c = "M" -> "m" [] c = "N" -> "n" [] c = "O" -> "o" [] c = "P" -> "p"
      [] c = "Q" -> "q" [] c = "R" -> "r" [] c = "S" -> "s" [] c = "T" -> "t"
      [] c = "U" -> "u" [] c = "V" -> "v" [] c = "W" -> "w" [] c = "X" -> "x"
      [] c = "Y" -> "y" [] c = "Z" -> "z" [] OTHER -> c

toLowerCase(s) == [i \in 1..Len(s) |-> Lower(s[i])]

includes(s, sub) ==
    \E i \in 0..(Len(s) - Len(sub)) : SubSeq(s, i + 1, i + Len(sub)) = sub

\* JavaScript truthiness of a string and of a number
truthyStr(s) == Len(s) > 0

truthyNum(n) == n # 0

\* o.k of a parsed JSON object: None when the key is absent
field(o, k) == IF k \in DOMAIN o THEN Some(o[k]) ELSE None

(***************************************************************************)
(* HistoryEntry                                                            *)
(***************************************************************************)
OptionalKeys == {"model", "category", "error"}

RequiredKeys ==
    {"id", "prompt", "command", "provider", "timestamp", "executionCount",
     "tags", "isFavorite"}

\* JSON.stringify of one entry: keys whose value is undefined are left out
stringifyEntry(e) ==
    [k \in RequiredKeys \cup {o \in OptionalKeys : e[o] # None} |->
        IF k \in OptionalKeys THEN e[k][1] ELSE e[k]]

\* JSON.stringify(this.history, null, 2)
stringify(h) == [i \in 1..Len(h) |-> stringifyEntry(h[i])]

(***************************************************************************)
(* Strings used as inputs.                                                 *)
(***************************************************************************)
PromptToGif == <<"t", "o", " ", "g", "i", "f">>

PromptToGifUpper == <<"T", "o", " ", "G", "I", "F">>

PromptTrim == <<"t", "r", "i", "m">>

Prompts == {PromptToGif, PromptToGifUpper, PromptTrim}

CommandOk == <<"f", "f">>

CommandFailed == <<>>

(***************************************************************************)
(* autoGenerateTags                                                        *)
(***************************************************************************)
tagIf(c, t) == IF c THEN <<t>> ELSE <<>>

\* autoGenerateTags that knows the video family only
autoGenerateTagsVideoOnly(prompt) ==
    tagIf(includes(toLowerCase(prompt), <<"v","i","d","e","o">>)
            \/ includes(toLowerCase(prompt), <<"m","p","4">>)
            \/ includes(toLowerCase(prompt), <<"a","v","i">>), "video")

autoGenerateTags(prompt) ==
    LET lowerPrompt == toLowerCase(prompt)
        has(w) == includes(lowerPrompt, w)
    IN  tagIf(has(<<"v","i","d","e","o">>) \/ has(<<"m","p","4">>)
                \/ has(<<"a","v","i">>), "video")
        \o tagIf(has(<<"a","u","d","i","o">>) \/ has(<<"m","p","3">>)
                \/ has(<<"s","o","u","n","d">>), "audio")
        \o tagIf(has(<<"c","o","n","v","e","r","t">>) \/ has(<<"t","o">>),
                 "conversion")
        \o tagIf(has(<<"c","o","m","p","r","e","s","s">>)
                \/ has(<<"r","e","d","u","c","e">>)
                \/ has(<<"o","p","t","i","m","i","z","e">>), "compression")
        \o tagIf(has(<<"g","i","f">>), "gif")
        \o tagIf(has(<<"s","t","r","e","a","m">>) \/ has(<<"r","t","m","p">>)
                \/ has(<<"h","l","s">>), "streaming")
        \o tagIf(has(<<"e","x","t","r","a","c","t">>), "extraction")
        \o tagIf(has(<<"r","e","s","i","z","e">>) \/ has(<<"s","c","a","l","e">>)
                \/ has(<<"r","e","s","o","l","u","t","i","o","n">>), "resize")

(***************************************************************************)
(* save: capacity trimming and the write of the file                       *)
(***************************************************************************)
RECURSIVE insertDesc(_, _)
\* e, which preceded every element of s, put into s sorted by timestamp
\* descending (Array.prototype.sort is stable)
insertDesc(e, s) ==
    IF s = <<>> THEN <<e>>
    ELSE IF Head(s).timestamp > e.timestamp
         THEN <<Head(s)>> \o insertDesc(e, Tail(s))
         ELSE <<e>> \o s

RECURSIVE sortDesc(_)
\* h.sort((a, b) => b.timestamp - a.timestamp)
sortDesc(h) ==
    IF h = <<>> THEN <<>> ELSE insertDesc(Head(h), sortDesc(Tail(h)))

\* ordered without the sort
orderedUnsorted(h) == h

\* this.history as save() orders it: sorted only when it is over the limit
ordered(h) == IF Len(h) > maxHistorySize THEN sortDesc(h) ELSE h

\* the array save() leaves in this.history: .slice(0, this.maxHistorySize)
trim(h) ==
    SubSeq(ordered(h), 1, IF Len(h) > maxHistorySize THEN maxHistorySize ELSE Len(h))

\* the entries save() cuts off
trimmedOff(h) == SubSeq(ordered(h), maxHistorySize + 1, Len(h))

\* the file save() writes
written(h) == [kind |-> "json", doc |-> stringify(trim(h))]

(***************************************************************************)
(* load                                                                    *)
(***************************************************************************)
\* one element of the parsed file after the migration of old entries
migrate(o) ==
    [id |-> o.id, prompt |-> o.prompt, command |-> o.command,
     provider |-> o.provider, model |-> field(o, "model"),
     timestamp |-> o.timestamp,
     executionCount |->
        IF "executionCount" \in DOMAIN o /\ truthyNum(o.executionCount)
        THEN o.executionCount ELSE 0,
     tags |-> IF "tags" \in DOMAIN o THEN o.tags ELSE <<>>,
     isFavorite |-> IF "isFavorite" \in DOMAIN o THEN o.isFavorite ELSE FALSE,
     category |-> field(o, "category"), error |-> field(o, "error")]

\* this.history after load(): the migrated array; [] when the file is
\* absent, when JSON.parse throws and when the parsed value has no map
load(f) ==
    IF f.kind = "json" THEN [i \in 1..Len(f.doc) |-> migrate(f.doc[i])]
    ELSE <<>>

\* one more step of a behaviour of at most MaxOps steps, taken by the
\* history store
HFrame ==
    steps < MaxOps /\ steps' = steps + 1 /\ UNCHANGED <<pvars, cli, cvars>>

\* a step that returns no text
Step == HFrame /\ UNCHANGED out

(***************************************************************************)
(* add                                                                     *)
(***************************************************************************)
\* findExisting with the prompts compared as they are
findExistingExact(h, prompt, command) ==
    LET hits == {i \in 1..Len(h) :
                    h[i].prompt = prompt /\ h[i].command = command}
    IN  IF hits = {} THEN 0 ELSE CHOOSE i \in hits : \A j \in hits : i <= j

\* this.history.findIndex(...): 0 stands for -1, indices start at 1
findExisting(h, prompt, command) ==
    LET hits == {i \in 1..Len(h) :
                    /\ toLowerCase(h[i].prompt) = toLowerCase(prompt)
                    /\ h[i].command = command}
    IN  IF hits = {} THEN 0 ELSE CHOOSE i \in hits : \A j \in hits : i <= j

\* added with the provider, model, category and error of the repeated call
\* written over those of the entry found
addedOverwriting(h, entry, t, id) ==
    LET existingIndex == findExisting(h, entry.prompt, entry.command)
    IN  IF existingIndex # 0
        THEN [h EXCEPT ![existingIndex].executionCount = @ + 1,
                       ![existingIndex].timestamp = t,
                       ![existingIndex].provider = entry.provider,
                       ![existingIndex].model = entry.model,
                       ![existingIndex].category = entry.category,
                       ![existingIndex].error = entry.error]
        ELSE <<[id |-> id, prompt |-> entry.prompt, command |-> entry.command,
                provider |-> entry.provider, model |-> entry.model,
                timestamp |-> t, executionCount |-> 1,
                tags |-> autoGenerateTags(entry.prompt), isFavorite |-> FALSE,
                category |-> entry.category, error |-> entry.error]>> \o h

\* this.history after the body of add, before save()
added(h, entry, t, id) ==
    LET existingIndex == findExisting(h, entry.prompt, entry.command)
    IN  IF existingIndex # 0
        THEN [h EXCEPT ![existingIndex].executionCount = @ + 1,
                       ![existingIndex].timestamp = t]
        ELSE <<[id |-> id, prompt |-> entry.prompt, command |-> entry.command,
                provider |-> entry.provider, model |-> entry.model,
                timestamp |-> t, executionCount |-> 1,
                tags |-> autoGenerateTags(entry.prompt), isFavorite |-> FALSE,
                category |-> entry.category, error |-> entry.error]>> \o h

\* what the command-line front end passes to add after a generation
\* attempt: the command on success, "" and the error text on failure
attempt(prompt, ok) ==
    [prompt |-> prompt,
     command |-> IF ok THEN CommandOk ELSE CommandFailed,
     provider |-> "openai", model |-> Some("gpt-4o"), category |-> None,
     error |-> IF ok THEN None ELSE Some("No API key found")]

Keys == {<<toLowerCase(p), c>> : p \in Prompts, c \in {CommandOk, CommandFailed}}

\* the generation attempts the front end records
Attempts ==
    {<<PromptToGif, TRUE>>, <<PromptToGifUpper, TRUE>>, <<PromptTrim, TRUE>>,
     <<PromptTrim, FALSE>>}

\* add(entry)
AddEntry(entry) ==
    LET existingIndex == findExisting(history, entry.prompt, entry.command)
        h1 == added(history, entry, now, nextId)
        key == <<toLowerCase(entry.prompt), entry.command>>
    IN  /\ Step
        /\ history' = trim(h1)
        /\ trimmed' = trimmedOff(h1)
        /\ file' = written(h1)
        /\ nextId' = IF existingIndex # 0 THEN nextId ELSE nextId + 1
        /\ lastOp' = "add"
        /\ lastResult' = 0
        /\ addsOnly' = (addsOnly /\ trimmedOff(h1) = <<>>)
        /\ addCount' = IF addsOnly'
                       THEN [addCount EXCEPT ![key] = @ + 1]
                       ELSE [k \in Keys |-> 0]
        /\ lastDays' = 0
        /\ UNCHANGED now

\* add as the front end calls it after a generation attempt
Add(prompt, ok) == AddEntry(attempt(prompt, ok))

(***************************************************************************)
(* operations addressed by id                                              *)
(***************************************************************************)
\* this.history.findIndex((h) => h.id === id), 0 for not found
indexOfId(h, id) ==
    LET hits == {i \in 1..Len(h) : h[i].id = id}
    IN  IF hits = {} THEN 0 ELSE CHOOSE i \in hits : \A j \in hits : i <= j

\* a mutation of the array followed by save()
Saved(h1, op, result) ==
    /\ Step
    /\ history' = trim(h1)
    /\ trimmed' = trimmedOff(h1)
    /\ file' = written(h1)
    /\ lastOp' = op
    /\ lastResult' = result
    /\ addsOnly' = FALSE
    /\ addCount' = [k \in Keys |-> 0]

\* an operation that returns without touching the array or the file
Untouched(op, result) ==
    /\ Step
    /\ lastOp' = op
    /\ lastResult' = result
    /\ trimmed' = <<>>
    /\ addsOnly' = FALSE
    /\ addCount' = [k \in Keys |-> 0]
    /\ UNCHANGED <<history, file>>

\* toggled that sets the flag instead of flipping it
toggledOn(h, i) == [h EXCEPT ![i].isFavorite = TRUE]

\* entry.isFavorite = !entry.isFavorite on the entry found
toggled(h, i) == [h EXCEPT ![i].isFavorite = ~@]

ToggleFavorite(id) ==
    LET i == indexOfId(history, id)
    IN  /\ IF i # 0
           THEN Saved(toggled(history, i), "toggleFavorite",
                      IF toggled(history, i)[i].isFavorite THEN 1 ELSE 0)
           ELSE Untouched("toggleFavorite", 0)
        /\ lastDays' = 0
        /\ UNCHANGED <<now, nextId>>

RECURSIVE unique(_)
\* [...new Set(s)]: first occurrences, in order
unique(s) ==
    IF s = <<>> THEN <<>>
    ELSE LET init == unique(SubSeq(s, 1, Len(s) - 1))
             last == s[Len(s)]
         IN  IF \E i \in 1..Len(init) : init[i] = last
             THEN init ELSE Append(init, last)

\* tagged with the given tags in place of the old ones
taggedAnew(h, i, tags) == [h EXCEPT ![i].tags = unique(tags)]

\* entry.tags = [...new Set([...entry.tags, ...tags])] on the entry found
tagged(h, i, tags) == [h EXCEPT ![i].tags = unique(@ \o tags)]

AddTags(id, tags) ==
    LET i == indexOfId(history, id)
    IN  /\ IF i # 0
           THEN Saved(tagged(history, i, tags), "addTags", 0)
           ELSE Untouched("addTags", 0)
        /\ lastDays' = 0
        /\ UNCHANGED <<now, nextId>>

SetCategory(id, category) ==
    LET i == indexOfId(history, id)
    IN  /\ IF i # 0
           THEN Saved([history EXCEPT ![i].category = Some(category)],
                      "setCategory", 0)
           ELSE Untouched("setCategory", 0)
        /\ lastDays' = 0
        /\ UNCHANGED <<now, nextId>>

\* this.history.splice(index, 1)
splice(h, i) == SubSeq(h, 1, i - 1) \o SubSeq(h, i + 1, Len(h))

Delete(id) ==
    LET i == indexOfId(history, id)
    IN  /\ IF i # 0
           THEN Saved(splice(history, i), "delete", 1)
           ELSE Untouched("delete", 0)
        /\ lastDays' = 0
        /\ UNCHANGED <<now, nextId>>

Clear ==
    /\ Saved(<<>>, "clear", 0)
    /\ lastDays' = 0
    /\ UNCHANGED <<now, nextId>>

(***************************************************************************)
(* clearOldEntries                                                         *)
(***************************************************************************)
cutoffTime(t, daysToKeep) == t - daysToKeep * DayMs

\* kept without the exemption of favorites
keptRecent(entry, cutoff) == entry.timestamp > cutoff

\* the filter predicate of clearOldEntries
kept(entry, cutoff) == entry.isFavorite \/ entry.timestamp > cutoff

RECURSIVE filterKept(_, _)
\* this.history.filter((entry) => entry.isFavorite || entry.timestamp > cutoffTime)
filterKept(h, cutoff) ==
    IF h = <<>> THEN <<>>
    ELSE IF kept(Head(h), cutoff)
         THEN <<Head(h)>> \o filterKept(Tail(h), cutoff)
         ELSE filterKept(Tail(h), cutoff)

ClearOldEntries(daysToKeep) ==
    LET h1 == filterKept(history, cutoffTime(now, daysToKeep))
    IN  /\ Saved(h1, "clearOldEntries", Len(history) - Len(trim(h1)))
        /\ lastDays' = daysToKeep
        /\ UNCHANGED <<now, nextId>>

(***************************************************************************)
(* exportHistory / importHistory                                           *)
(***************************************************************************)
\* exportHistory("json")
exportJson(h) == stringify(h)

\* entry.prompt && entry.command && entry.provider
valid(o) ==
    /\ "prompt" \in DOMAIN o /\ truthyStr(o.prompt)
    /\ "command" \in DOMAIN o /\ truthyStr(o.command)
    /\ "provider" \in DOMAIN o /\ o.provider # ""

RECURSIVE validEntries(_)
validEntries(entries) ==
    IF entries = <<>> THEN <<>>
    ELSE IF valid(Head(entries))
         THEN <<Head(entries)>> \o validEntries(Tail(entries))
         ELSE validEntries(Tail(entries))

\* exists without the comparison
existsNever(h, o) == FALSE

\* this.history.some((h) => h.prompt === entry.prompt && h.command === entry.command)
exists(h, o) ==
    \E i \in 1..Len(h) : h[i].prompt = o.prompt /\ h[i].command = o.command

\* pushed with the id, the time and the defaults of a new entry whatever
\* the payload object holds
pushedFresh(o, t, id) ==
    [id |-> id, prompt |-> o.prompt, command |-> o.command,
     provider |-> o.provider, model |-> field(o, "model"), timestamp |-> t,
     executionCount |-> 1, tags |-> <<>>, isFavorite |-> FALSE,
     category |-> field(o, "category"), error |-> field(o, "error")]

\* the entry importHistory pushes for a payload object; id is a fresh id
pushed(o, t, id) ==
    [id |-> IF "id" \in DOMAIN o /\ truthyNum(o.id) THEN o.id ELSE id,
     prompt |-> o.prompt, command |-> o.command, provider |-> o.provider,
     model |-> field(o, "model"),
     timestamp |-> IF "timestamp" \in DOMAIN o /\ truthyNum(o.timestamp)
                   THEN o.timestamp ELSE t,
     executionCount |->
        IF "executionCount" \in DOMAIN o /\ truthyNum(o.executionCount)
        THEN o.executionCount ELSE 1,
     tags |-> IF "tags" \in DOMAIN o THEN o.tags ELSE <<>>,
     isFavorite |-> IF "isFavorite" \in DOMAIN o THEN o.isFavorite ELSE FALSE,
     category |-> field(o, "category"), error |-> field(o, "error")]

\* whether pushing o draws a fresh id
drawsId(o) == ~("id" \in DOMAIN o /\ truthyNum(o.id))

RECURSIVE merged(_, _, _, _)
\* validEntries.forEach(...): the array and the id generator afterwards
merged(h, entries, t, id) ==
    IF entries = <<>> THEN [h |-> h, nextId |-> id]
    ELSE LET o == Head(entries)
         IN  IF exists(h, o)
             THEN merged(h, Tail(entries), t, id)
             ELSE merged(Append(h, pushed(o, t, id)), Tail(entries), t,
                         IF drawsId(o) THEN id + 1 ELSE id)

\* this.history after importHistory(data, "json") on an array h, saved
imported(h, data, t, id) == trim(merged(h, validEntries(data), t, id).h)

\* payload objects: an entry exported by another store, a hand-written one
\* without the optional fields, one without a command
PayloadFull ==
    [id |-> 99, prompt |-> PromptTrim, command |-> CommandOk,
     provider |-> "openai", timestamp |-> 1, executionCount |-> 2,
     tags |-> <<"video">>, isFavorite |-> TRUE]

PayloadMinimal ==
    [prompt |-> PromptToGifUpper, command |-> CommandOk, provider |-> "claude"]

PayloadNoCommand == [prompt |-> PromptTrim, provider |-> "openai"]

PayloadObjects == {PayloadFull, PayloadMinimal, PayloadNoCommand}

\* the export of h with the prompt of its first entry rewritten by hand
editedExport(h) ==
    IF h = <<>> THEN <<>>
    ELSE [exportJson(h) EXCEPT ![1].prompt = PromptTrim]

\* the data importHistory is called with when the array is h
Payloads(h) ==
    {<<o>> : o \in PayloadObjects} \cup {<<PayloadMinimal, PayloadFull>>}
        \cup {exportJson(h), editedExport(h)}

\* the element null of a parsed array
JsNull == [isNull |-> TRUE]

isNull(o) == "isNull" \in DOMAIN o

\* the arguments of importHistory: the format, and what JSON.parse makes of
\* the data: it throws ("malformed"), it returns a value that is not an
\* array ("notArray"), it returns the array items
ImportArgs(h) ==
    {[format |-> "json", kind |-> "array", items |-> d] : d \in Payloads(h)}
        \cup {[format |-> "csv", kind |-> "array", items |-> exportJson(h)],
              [format |-> "json", kind |-> "malformed", items |-> <<>>],
              [format |-> "json", kind |-> "notArray", items |-> <<>>],
              [format |-> "json", kind |-> "array",
               items |-> <<PayloadMinimal, JsNull>>]}

\* whether importHistory throws: the csv branch, JSON.parse, a value without
\* filter, and the filter callback reading .prompt of null
importThrows(a) ==
    \/ a.format # "json"
    \/ a.kind # "array"
    \/ \E i \in 1..Len(a.items) : isNull(a.items[i])

\* atThrow with the entries ahead of the null element merged
atThrowPartial(h, a, t, id) ==
    IF a.format = "json" /\ a.kind = "array"
    THEN LET firstNull == CHOOSE i \in 1..Len(a.items) :
                              /\ isNull(a.items[i])
                              /\ \A j \in 1..(i - 1) : ~isNull(a.items[j])
         IN  merged(h, validEntries(SubSeq(a.items, 1, firstNull - 1)), t, id).h
    ELSE h

\* this.history when importHistory throws: every throw precedes the forEach
\* that pushes
atThrow(h, a, t, id) == h

\* returned with the entries pushed counted instead of the valid ones
returnedInserted(h, entries, t, id) ==
    Len(merged(h, validEntries(entries), t, id).h) - Len(h)

\* return validEntries.length
returned(h, entries, t, id) == Len(validEntries(entries))

ImportHistory(a) ==
    LET m == merged(history, validEntries(a.items), now, nextId)
    IN  IF importThrows(a)
        THEN /\ Step
             /\ history' = atThrow(history, a, now, nextId)
             /\ lastOp' = "importHistory threw"
             /\ lastResult' = 0
             /\ trimmed' = <<>>
             /\ addsOnly' = FALSE
             /\ addCount' = [k \in Keys |-> 0]
             /\ lastDays' = 0
             /\ UNCHANGED <<file, now, nextId>>
        ELSE /\ Saved(m.h, "importHistory",
                       returned(history, a.items, now, nextId))
             /\ nextId' = m.nextId
             /\ lastDays' = 0
             /\ UNCHANGED now

(***************************************************************************)
(* getRecent sorts this.history in place                                   *)
(***************************************************************************)
\* what getRecent does to the store: Array.prototype.sort sorts
\* this.history itself
SortsInPlace ==
    /\ history' = sortDesc(history)
    /\ lastOp' = "getRecent"
    /\ lastResult' = 0
    /\ trimmed' = <<>>
    /\ addsOnly' = FALSE
    /\ addCount' = [k \in Keys |-> 0]
    /\ lastDays' = 0
    /\ UNCHANGED <<file, now, nextId>>

\* getRecent(), its result left aside
GetRecent == Step /\ SortsInPlace

(***************************************************************************)
(* construction, the clock, a new process                                  *)
(***************************************************************************)
\* an entry written by a version that did not record executionCount, tags
\* and isFavorite
LegacyObject ==
    [id |-> 1, prompt |-> PromptToGif, command |-> CommandOk,
     provider |-> "openai", timestamp |-> 1]

\* history.json: absent, not JSON, a JSON value that is not an array, an
\* array
InitialFiles ==
    {[kind |-> "absent", doc |-> <<>>],
     [kind |-> "malformed", doc |-> <<>>],
     [kind |-> "object", doc |-> <<>>],
     [kind |-> "json", doc |-> <<>>],
     [kind |-> "json", doc |-> <<LegacyObject>>]}

\* new HistoryManager()
Init ==
    /\ file \in InitialFiles
    /\ history = load(file)
    /\ now = 1
    /\ nextId = Len(file.doc) + 1
    /\ lastOp = "load"
    /\ lastDays = 0
    /\ lastResult = 0
    /\ trimmed = <<>>
    /\ addsOnly = (history = <<>>)
    /\ addCount = [k \in Keys |-> 0]
    /\ steps = 0
    /\ AtRest
    /\ presetsFile = [kind |-> "absent", doc |-> <<>>]
    /\ customPresets = <<>>
    /\ nextRandom = 1
    /\ customIsArray = TRUE
    /\ out = NoOutput

\* the process ends and a new one constructs the store from the file
Restart ==
    /\ Step
    /\ history' = load(file)
    /\ lastOp' = "load"
    /\ lastResult' = 0
    /\ trimmed' = <<>>
    /\ addsOnly' = FALSE
    /\ addCount' = [k \in Keys |-> 0]
    /\ lastDays' = 0
    /\ UNCHANGED <<file, now, nextId>>

Tick ==
    /\ Step
    /\ now' = now + 1
    /\ lastOp' = "tick"
    /\ lastDays' = 0
    /\ UNCHANGED <<history, file, nextId, lastResult, trimmed,
                   addsOnly, addCount>>

\* the daysToKeep arguments of clearOldEntries
DaysToKeep == {0, 1}

\* the ids the operations addressed by id are called with: those of the
\* entries and 0, which no entry has
IdArgs == {history[i].id : i \in 1..Len(history)} \cup {0}

Next ==
    \/ \E a \in Attempts : Add(a[1], a[2])
    \/ \E id \in IdArgs : ToggleFavorite(id)
    \/ \E id \in IdArgs : AddTags(id, <<"work", "gif">>)
    \/ \E id \in IdArgs : SetCategory(id, "work")
    \/ \E id \in IdArgs : Delete(id)
    \/ Clear
    \/ \E d \in DaysToKeep : ClearOldEntries(d)
    \/ \E a \in ImportArgs(history) : ImportHistory(a)
    \/ GetRecent
    \/ Restart
    \/ Tick

Spec == Init /\ [][Next]_vars

(***************************************************************************)
(* Strings and values of the template code.  The texts of the preset store *)
(* are TLA+ strings; Len, \o and SubSeq apply to them, and SubSeq(s, i, i) *)
(* is the one-character string at position i.                              *)
(***************************************************************************)
charAt(s, i) == SubSeq(s, i, i)

isDigit(c) == c \in {"0", "1", "2", "3", "4", "5", "6", "7", "8", "9"}

\* \s restricted to the space, the tab and the line feed
isSpace(c) == c \in {" ", "\t", "\n"}

RECURSIVE decimal(_)
\* Number.prototype.toString of an integer
decimal(n) ==
    IF n < 0 THEN "-" \o decimal(0 - n)
    ELSE IF n < 10 THEN charAt("0123456789", n + 1)
    ELSE decimal(n \div 10) \o charAt("0123456789", (n % 10) + 1)

\* s.indexOf(sub) counted from 1, 0 for not found
indexOf(s, sub) ==
    LET hits == {i \in 1..(Len(s) - Len(sub) + 1) :
                    SubSeq(s, i, i + Len(sub) - 1) = sub}
    IN  IF hits = {} THEN 0 ELSE CHOOSE i \in hits : \A j \in hits : i <= j

\* s.trim()
strTrim(s) ==
    LET solid == {i \in 1..Len(s) : ~isSpace(charAt(s, i))}
    IN  IF solid = {} THEN ""
        ELSE SubSeq(s, CHOOSE i \in solid : \A j \in solid : i <= j,
                       CHOOSE i \in solid : \A j \in solid : i >= j)

\* A value of type any: a string, a number, null or undefined.
StrV(s) == [t |-> "string", s |-> s, n |-> 0]

NumV(n) == [t |-> "number", s |-> "", n |-> n]

NullV == [t |-> "null", s |-> "", n |-> 0]

UndefinedV == [t |-> "undefined", s |-> "", n |-> 0]

\* String(v), as String.prototype.replace converts its second argument
String(v) ==
    CASE v.t = "number" -> decimal(v.n)
      [] v.t = "null" -> "null"
      [] OTHER -> v.s

\* a PresetParameter: default and options are None when not declared
parameter(name, type, default, options) ==
    [name |-> name, type |-> type, default |-> default, options |-> options]

(***************************************************************************)
(* PresetManager                                                           *)
(***************************************************************************)
\* An id is the tuple of the pieces its string is made of: <<s>> for a
\* built-in id s, <<"custom-", Date.now(), "-", r>> for a custom one.
builtIn(id, name, category, difficulty, commonUse, prompt, parameters) ==
    [id |-> <<id>>, name |-> name, category |-> category,
     difficulty |-> difficulty, commonUse |-> commonUse, prompt |-> prompt,
     parameters |-> parameters]

\* the catalog compiled into the program: id, name, category, difficulty,
\* commonUse, prompt and parameters (name, type, default, options) of each
\* record
builtInPresets ==
    <<builtIn("convert-to-mp4", "Convert to MP4",
              "Video Conversion", "beginner", TRUE,
              "convert {input} to mp4 with h264 codec and aac audio",
              <<parameter("input", "file", None,
                        None),
                parameter("quality", "select", Some(StrV("23 (Medium)")),
                        Some(<<"18 (High)", "23 (Medium)", "28 (Low)">>))>>),
      builtIn("convert-to-webm", "Convert to WebM",
              "Video Conversion", "intermediate", TRUE,
              "convert {input} to webm with vp9 codec and opus audio bitrate {audio_bitrate}k",
              <<parameter("input", "file", None,
                        None),
                parameter("audio_bitrate", "number", Some(NumV(128)),
                        None)>>),
      builtIn("compress-for-web", "Compress for Web",
              "Video Compression", "beginner", TRUE,
              "compress {input} for web streaming with {quality} quality, max resolution {resolution}",
              <<parameter("input", "file", None,
                        None),
                parameter("quality", "select", Some(StrV("medium")),
                        Some(<<"high", "medium", "low">>)),
                parameter("resolution", "select", Some(StrV("720p")),
                        Some(<<"1080p", "720p", "480p", "360p">>))>>),
      builtIn("compress-for-discord", "Compress for Discord",
              "Video Compression", "beginner", TRUE,
              "compress {input} to under {size}MB for Discord upload, maintain aspect ratio",
              <<parameter("input", "file", None,
                        None),
                parameter("size", "select", Some(StrV("8")),
                        Some(<<"8", "25", "50", "100">>))>>),
      builtIn("video-to-gif", "Video to GIF",
              "GIF Creation", "intermediate", TRUE,
              "create gif from {input} starting at {start} seconds for {duration} seconds with {fps}fps and width {width}px",
              <<parameter("input", "file", None,
                        None),
                parameter("start", "number", Some(NumV(0)),
                        None),
                parameter("duration", "number", Some(NumV(5)),
                        None),
                parameter("fps", "number", Some(NumV(10)),
                        None),
                parameter("width", "number", Some(NumV(480)),
                        None)>>),
      builtIn("optimize-gif", "Optimize GIF",
              "GIF Creation", "advanced", FALSE,
              "create optimized gif from {input} between {start}-{end} seconds with palette optimization",
              <<parameter("input", "file", None,
                        None),
                parameter("start", "number", Some(NumV(0)),
                        None),
                parameter("end", "number", Some(NumV(5)),
                        None)>>),
      builtIn("extract-audio", "Extract Audio",
              "Audio Processing", "beginner", TRUE,
              "extract audio from {input} and save as {format} with {bitrate}k bitrate",
              <<parameter("input", "file", None,
                        None),
                parameter("format", "select", Some(StrV("mp3")),
                        Some(<<"mp3", "aac", "wav", "flac", "ogg">>)),
                parameter("bitrate", "select", Some(StrV("192")),
                        Some(<<"128", "192", "256", "320">>))>>),
      builtIn("normalize-audio", "Normalize Audio",
              "Audio Processing", "intermediate", FALSE,
              "normalize audio in {input} to {level}dB peak level",
              <<parameter("input", "file", None,
                        None),
                parameter("level", "number", Some(NumV(-3)),
                        None)>>),
      builtIn("trim-video", "Trim Video",
              "Video Editing", "beginner", TRUE,
              "trim {input} from {start} to {end} {copy_mode}",
              <<parameter("input", "file", None,
                        None),
                parameter("start", "string", None,
                        None),
                parameter("end", "string", None,
                        None),
                parameter("copy_mode", "select", Some(StrV("without re-encoding (fast)")),
                        Some(<<"with re-encoding", "without re-encoding (fast)">>))>>),
      builtIn("merge-videos", "Merge Videos",
              "Video Editing", "intermediate", TRUE,
              "merge videos {files} into single video with {transition}",
              <<parameter("files", "string", None,
                        None),
                parameter("transition", "select", Some(StrV("no transition")),
                        Some(<<"no transition", "fade", "dissolve", "wipe">>))>>),
      builtIn("add-watermark", "Add Watermark",
              "Video Editing", "intermediate", FALSE,
              "add {watermark_type} watermark '{watermark}' to {input} at {position} with {opacity}% opacity",
              <<parameter("input", "file", None,
                        None),
                parameter("watermark_type", "select", Some(StrV("text")),
                        Some(<<"text", "image">>)),
                parameter("watermark", "string", None,
                        None),
                parameter("position", "select", Some(StrV("bottom-right")),
                        Some(<<"top-left", "top-right", "bottom-left", "bottom-right", "center">>)),
                parameter("opacity", "number", Some(NumV(50)),
                        None)>>),
      builtIn("resize-video", "Resize Video",
              "Video Resizing", "beginner", TRUE,
              "resize {input} to {resolution} maintaining aspect ratio",
              <<parameter("input", "file", None,
                        None),
                parameter("resolution", "select", Some(StrV("1280x720")),
                        Some(<<"1920x1080", "1280x720", "854x480", "640x360", "custom">>))>>),
      builtIn("crop-video", "Crop Video",
              "Video Resizing", "intermediate", TRUE,
              "crop {input} to {aspect_ratio} aspect ratio {position}",
              <<parameter("input", "file", None,
                        None),
                parameter("aspect_ratio", "select", Some(StrV("16:9")),
                        Some(<<"16:9", "4:3", "1:1", "9:16", "21:9">>)),
                parameter("position", "select", Some(StrV("center")),
                        Some(<<"center", "top", "bottom">>))>>),
      builtIn("add-blur", "Add Blur Effect",
              "Effects & Filters", "intermediate", FALSE,
              "add {blur_type} blur to {input} with intensity {intensity}",
              <<parameter("input", "file", None,
                        None),
                parameter("blur_type", "select", Some(StrV("gaussian")),
                        Some(<<"gaussian", "box", "motion">>)),
                parameter("intensity", "select", Some(StrV("medium")),
                        Some(<<"light", "medium", "heavy">>))>>),
      builtIn("color-correction", "Color Correction",
              "Effects & Filters", "intermediate", FALSE,
              "adjust {input} brightness to {brightness}, contrast to {contrast}, saturation to {saturation}",
              <<parameter("input", "file", None,
                        None),
                parameter("brightness", "number", Some(NumV(0)),
                        None),
                parameter("contrast", "number", Some(NumV(0)),
                        None),
                parameter("saturation", "number", Some(NumV(0)),
                        None)>>),
      builtIn("stabilize-video", "Stabilize Shaky Video",
              "Effects & Filters", "advanced", FALSE,
              "stabilize shaky video {input} with {strength} stabilization",
              <<parameter("input", "file", None,
                        None),
                parameter("strength", "select", Some(StrV("medium")),
                        Some(<<"light", "medium", "strong">>))>>),
      builtIn("instagram-square", "Instagram Square Video",
              "Social Media", "beginner", TRUE,
              "convert {input} to instagram square video 1080x1080 with {background} background",
              <<parameter("input", "file", None,
                        None),
                parameter("background", "select", Some(StrV("blur")),
                        Some(<<"black", "white", "blur">>))>>),
      builtIn("tiktok-vertical", "TikTok Vertical Video",
              "Social Media", "beginner", TRUE,
              "convert {input} to tiktok vertical format 1080x1920 at {fps}fps",
              <<parameter("input", "file", None,
                        None),
                parameter("fps", "select", Some(StrV("30")),
                        Some(<<"30", "60">>))>>),
      builtIn("stream-to-rtmp", "Stream to RTMP",
              "Streaming", "advanced", FALSE,
              "stream {input} to rtmp://{server}/{key} with {bitrate}k bitrate and {preset} preset",
              <<parameter("input", "string", None,
                        None),
                parameter("server", "string", None,
                        None),
                parameter("key", "string", None,
                        None),
                parameter("bitrate", "select", Some(StrV("4000")),
                        Some(<<"2500", "4000", "6000", "8000">>)),
                parameter("preset", "select", Some(StrV("veryfast")),
                        Some(<<"ultrafast", "superfast", "veryfast", "faster", "fast">>))>>),
      builtIn("extract-frames", "Extract Frames",
              "Advanced", "intermediate", FALSE,
              "extract {rate} from {input} as {format} images",
              <<parameter("input", "file", None,
                        None),
                parameter("rate", "select", Some(StrV("1 frame per second")),
                        Some(<<"1 frame per second", "all frames", "1 frame per 5 seconds", "1 frame per 10 seconds">>)),
                parameter("format", "select", Some(StrV("jpg")),
                        Some(<<"jpg", "png", "bmp">>))>>),
      builtIn("create-thumbnail", "Create Video Thumbnail",
              "Advanced", "beginner", TRUE,
              "create thumbnail from {input} at {time} seconds with {width}x{height} resolution",
              <<parameter("input", "file", None,
                        None),
                parameter("time", "number", Some(NumV(5)),
                        None),
                parameter("width", "number", Some(NumV(1280)),
                        None),
                parameter("height", "number", Some(NumV(720)),
                        None)>>)>>

\* JSON.stringify(this.customPresets, null, 2) written to presets.json
writtenPresets(ps) == [kind |-> "json", doc |-> ps]

\* PresetManager.load: this.customPresets is whatever JSON.parse returns;
\* here the elements it has when that is an array
loadPresets(f) == IF f.kind = "json" THEN f.doc ELSE <<>>

\* whether this.customPresets is an array after load: the initial [] when
\* the file is absent or JSON.parse throws, the parsed value otherwise
loadedIsArray(f) == f.kind # "object"

\* getAllPresets listing the custom presets before the built-in ones
getAllPresetsCustomFirst(ps) == ps \o builtInPresets

\* getAllPresets
getAllPresets(ps) == builtInPresets \o ps

\* the id addCustomPreset makes; Math.random never repeats a value (r)
customId(t, r) == <<"custom-", t, "-", r>>

\* this.customPresets after addCustomPreset(preset)
addedPreset(ps, preset, t, r) ==
    Append(ps,
           [k \in DOMAIN preset \cup {"id", "isCustom", "createdAt", "usageCount"} |->
                CASE k = "id" -> customId(t, r)
                  [] k = "isCustom" -> TRUE
                  [] k = "createdAt" -> t
                  [] k = "usageCount" -> 0
                  [] OTHER -> preset[k]])

\* the preset data the front end collects
PresetData ==
    {[name |-> n, description |-> "", category |-> "Custom",
      prompt |-> "rotate {input}", parameters |-> <<>>, examples |-> <<>>,
      tags |-> <<>>, difficulty |-> "intermediate", commonUse |-> FALSE] :
        n \in {"Rotate", "Flip"}}

\* a step of the preset store
PFrame ==
    /\ steps < MaxOps
    /\ steps' = steps + 1
    /\ UNCHANGED <<history, file, nextId, lastDays, trimmed, addsOnly, addCount>>
    /\ UNCHANGED <<cli, cvars>>

\* a step of an operation that finds an array in this.customPresets
PStep == PFrame /\ customIsArray /\ UNCHANGED <<customIsArray, out>>

\* a mutation of the custom catalog followed by save()
SavedPresets(ps, op, result) ==
    /\ PStep
    /\ customPresets' = ps
    /\ presetsFile' = writtenPresets(ps)
    /\ lastOp' = op
    /\ lastResult' = result

\* an operation that returns without touching the catalog or the file
UntouchedPresets(op, result) ==
    /\ PStep
    /\ lastOp' = op
    /\ lastResult' = result
    /\ UNCHANGED <<customPresets, presetsFile>>

AddCustomPreset(preset) ==
    /\ SavedPresets(addedPreset(customPresets, preset, now, nextRandom),
                    "addCustomPreset", 0)
    /\ nextRandom' = nextRandom + 1
    /\ UNCHANGED now

\* this.customPresets.findIndex((p) => p.id === id), 0 for not found
indexOfPreset(ps, id) ==
    LET hits == {i \in 1..Len(ps) : ps[i].id = id}
    IN  IF hits = {} THEN 0 ELSE CHOOSE i \in hits : \A j \in hits : i <= j

\* { ...preset, ...updates }
spread(preset, updates) ==
    [k \in DOMAIN preset \cup DOMAIN updates |->
        IF k \in DOMAIN updates THEN updates[k] ELSE preset[k]]

UpdateCustomPreset(id, updates) ==
    LET index == indexOfPreset(customPresets, id)
    IN  /\ IF index # 0
           THEN SavedPresets([customPresets EXCEPT ![index] = spread(@, updates)],
                             "updateCustomPreset", 1)
           ELSE UntouchedPresets("updateCustomPreset", 0)
        /\ UNCHANGED <<now, nextRandom>>

DeleteCustomPreset(id) ==
    LET index == indexOfPreset(customPresets, id)
    IN  /\ IF index # 0
           THEN SavedPresets(splice(customPresets, index), "deleteCustomPreset", 1)
           ELSE UntouchedPresets("deleteCustomPreset", 0)
        /\ UNCHANGED <<now, nextRandom>>

IncrementUsageCount(id) ==
    LET index == indexOfPreset(customPresets, id)
    IN  /\ IF index # 0
           THEN SavedPresets([customPresets EXCEPT ![index].usageCount = @ + 1],
                             "incrementUsageCount", 0)
           ELSE UntouchedPresets("incrementUsageCount", 0)
        /\ UNCHANGED <<now, nextRandom>>

\* preset.name && preset.prompt && preset.category
candidate(o) ==
    /\ "name" \in DOMAIN o /\ o.name # ""
    /\ "prompt" \in DOMAIN o /\ o.prompt # ""
    /\ "category" \in DOMAIN o /\ o.category # ""

\* x || d for a field of a parsed object
orDefault(o, k, d) == IF k \in DOMAIN o THEN o[k] ELSE d

\* the argument importCustomPresets passes to addCustomPreset
fromImport(o) ==
    [name |-> o.name, description |-> orDefault(o, "description", ""),
     category |-> o.category, prompt |-> o.prompt,
     parameters |-> orDefault(o, "parameters", <<>>),
     examples |-> orDefault(o, "examples", <<>>),
     tags |-> orDefault(o, "tags", <<>>),
     difficulty |-> orDefault(o, "difficulty", "intermediate"),
     commonUse |-> orDefault(o, "commonUse", FALSE)]

RECURSIVE importedPresets(_, _, _, _, _)
\* presets.forEach(...): the catalog, the random generator and the count
\* when it ends; it ends at an element null, whose .name throws
importedPresets(ps, items, t, r, count) ==
    IF items = <<>>
    THEN [ps |-> ps, nextRandom |-> r, count |-> count, threw |-> FALSE]
    ELSE IF isNull(Head(items))
         THEN [ps |-> ps, nextRandom |-> r, count |-> count, threw |-> TRUE]
    ELSE IF candidate(Head(items))
         THEN importedPresets(addedPreset(ps, fromImport(Head(items)), t, r),
                              Tail(items), t, r + 1, count + 1)
         ELSE importedPresets(ps, Tail(items), t, r, count)

\* the objects of an import: a preset exported by a store (it carries the
\* id of a built-in the user copied), one without a category, one with an
\* empty name
ImportItems ==
    {[id |-> <<"convert-to-mp4">>, name |-> "My MP4", category |-> "Custom",
      prompt |-> "convert {input} to mp4"],
     [name |-> "No category", prompt |-> "x"],
     [name |-> "", category |-> "Custom", prompt |-> "x"]}

\* the My MP4 object with usageCount, isCustom and createdAt as another
\* store exported them
UsedItem ==
    [id |-> <<"custom-", 1, "-", 1>>, name |-> "My MP4",
     category |-> "Custom", prompt |-> "convert {input} to mp4",
     isCustom |-> FALSE, createdAt |-> 0, usageCount |-> 7]

\* the data of importCustomPresets by what JSON.parse makes of it: it
\* throws ("malformed"), it returns an array ("array"), an object whose
\* custom field is an array ("custom"), another value ("object"); items
\* is the array
ImportData ==
    {[kind |-> "array", items |-> <<o>>] : o \in ImportItems}
        \cup {[kind |-> "array", items |-> <<a, b>>] : a, b \in ImportItems}
        \cup {[kind |-> "custom", items |-> <<UsedItem>>],
              [kind |-> "array", items |-> <<UsedItem, JsNull>>],
              [kind |-> "object", items |-> <<>>],
              [kind |-> "malformed", items |-> <<>>]}

\* Array.isArray(imported.custom || imported)
resolvesToArray(data) == data.kind \in {"array", "custom"}

ImportCustomPresets(data) ==
    LET r == importedPresets(customPresets, data.items, now, nextRandom, 0)
    IN  /\ IF resolvesToArray(data)
           THEN /\ IF r.count > 0
                   THEN SavedPresets(r.ps,
                                     IF r.threw THEN "importCustomPresets failed"
                                     ELSE "importCustomPresets",
                                     IF r.threw THEN 0 ELSE r.count)
                   ELSE UntouchedPresets(IF r.threw
                                         THEN "importCustomPresets failed"
                                         ELSE "importCustomPresets", 0)
                /\ nextRandom' = r.nextRandom
           ELSE /\ UntouchedPresets("importCustomPresets failed", 0)
                /\ UNCHANGED nextRandom
        /\ UNCHANGED now

\* the process ends and a new one constructs the store from the file
RestartPresets ==
    /\ PFrame
    /\ customPresets' = loadPresets(presetsFile)
    /\ customIsArray' = loadedIsArray(presetsFile)
    /\ lastOp' = "load"
    /\ lastResult' = 0
    /\ UNCHANGED <<presetsFile, now, nextRandom, out>>

\* the operations of the store called while this.customPresets is not an
\* array: push, findIndex, find and the spread in getAllPresets throw a
\* TypeError, and nothing is written
PresetOps ==
    {"addCustomPreset", "updateCustomPreset", "deleteCustomPreset",
     "incrementUsageCount", "getAllPresets", "buildPromptFromPreset"}

ThrowsTypeError(op) ==
    /\ PFrame
    /\ ~customIsArray
    /\ lastOp' = op
    /\ lastResult' = 0
    /\ out' = Threw("TypeError")
    /\ UNCHANGED <<customPresets, presetsFile, customIsArray, now, nextRandom>>

\* presets.json: absent, not JSON, a JSON object such as the text that
\* exportPresets returns, an array
InitialPresetFiles ==
    {[kind |-> "absent", doc |-> <<>>],
     [kind |-> "malformed", doc |-> <<>>],
     [kind |-> "object", doc |-> <<>>],
     [kind |-> "json", doc |-> <<>>]}

\* the partial objects updateCustomPreset is called with: any fields of a
\* CustomPreset
Updates ==
    {[name |-> "Renamed"], [id |-> <<"convert-to-mp4">>], [commonUse |-> TRUE],
     [isCustom |-> FALSE, usageCount |-> 5]}

\* the ids the operations addressed by id are called with
PresetIdArgs ==
    {customPresets[i].id : i \in 1..Len(customPresets)}
        \cup {<<"convert-to-mp4">>, <<"no-such-preset">>}

\* new PresetManager(), with the history store left empty
InitPresets ==
    /\ presetsFile \in InitialPresetFiles
    /\ customPresets = loadPresets(presetsFile)
    /\ customIsArray = loadedIsArray(presetsFile)
    /\ out = NoOutput
    /\ nextRandom = 1
    /\ file = [kind |-> "absent", doc |-> <<>>]
    /\ history = <<>>
    /\ now = 1
    /\ nextId = 1
    /\ lastOp = "load"
    /\ lastDays = 0
    /\ lastResult = 0
    /\ trimmed = <<>>
    /\ addsOnly = FALSE
    /\ addCount = [k \in Keys |-> 0]
    /\ steps = 0
    /\ AtRest

NextPresets ==
    \/ \E preset \in PresetData : AddCustomPreset(preset)
    \/ \E id \in PresetIdArgs, u \in Updates : UpdateCustomPreset(id, u)
    \/ \E id \in PresetIdArgs : DeleteCustomPreset(id)
    \/ \E id \in PresetIdArgs : IncrementUsageCount(id)
    \/ \E data \in ImportData : ImportCustomPresets(data)
    \/ \E op \in PresetOps : ThrowsTypeError(op)
    \/ RestartPresets
    \/ Tick

SpecPresets == InitPresets /\ [][NextPresets]_vars

(***************************************************************************)
(* buildPromptFromPreset                                                   *)
(***************************************************************************)
\* this.getAllPresets().find((p) => p.id === id): None for undefined
getPresetById(ps, id) ==
    LET all == getAllPresets(ps)
        hits == {i \in 1..Len(all) : all[i].id = id}
    IN  IF hits = {} THEN None
        ELSE Some(all[CHOOSE i \in hits : \A j \in hits : i <= j])

\* parameters[name]: None for undefined, whether the key is absent or holds
\* undefined
lookup(parameters, name) ==
    IF name \in DOMAIN parameters /\ parameters[name].t # "undefined"
    THEN Some(parameters[name]) ELSE None

\* coalesce with || in place of ??: a falsy supplied value gives way
coalesceTruthy(supplied, default) ==
    IF /\ supplied # None
       /\ supplied[1].t # "null"
       /\ ~(supplied[1].t = "number" /\ supplied[1].n = 0)
       /\ ~(supplied[1].t = "string" /\ supplied[1].s = "")
    THEN supplied ELSE default

\* supplied ?? default
coalesce(supplied, default) ==
    IF supplied # None /\ supplied[1].t # "null" THEN supplied ELSE default

\* value.toString().match(/^(\d+)\s*\(/): Some(match[1]) or None
matchLeadingInteger(s) ==
    LET runs == {k \in 0..Len(s) : \A i \in 1..k : isDigit(charAt(s, i))}
        d == CHOOSE k \in runs : \A j \in runs : j <= k
        gaps == {k \in d..Len(s) : \A i \in (d + 1)..k : isSpace(charAt(s, i))}
        g == CHOOSE k \in gaps : \A j \in gaps : j <= k
    IN  IF d >= 1 /\ g < Len(s) /\ charAt(s, g + 1) = "("
        THEN Some(SubSeq(s, 1, d)) ELSE None

\* finalValue that cuts at "(" whatever the type of the parameter
finalValueAnyType(param, value) ==
    IF value.t # "string" THEN [threw |-> FALSE, text |-> String(value)]
    ELSE IF matchLeadingInteger(value.s) # None /\ param.type = "select"
         THEN [threw |-> FALSE, text |-> matchLeadingInteger(value.s)[1]]
         ELSE IF indexOf(value.s, "(") # 0
              THEN [threw |-> FALSE,
                    text |-> strTrim(SubSeq(value.s, 1, indexOf(value.s, "(") - 1))]
              ELSE [threw |-> FALSE, text |-> value.s]

\* finalValue as replace() receives it, converted to a string; threw when
\* null has no toString or a value that is not a string has no includes
finalValue(param, value) ==
    IF param.type = "select" /\ param.options # None
    THEN IF value.t = "null" THEN [threw |-> TRUE, text |-> ""]
         ELSE LET match == matchLeadingInteger(String(value))
              IN  IF match # None THEN [threw |-> FALSE, text |-> match[1]]
                  ELSE IF value.t # "string" THEN [threw |-> TRUE, text |-> ""]
                  ELSE IF indexOf(value.s, "(") # 0
                       THEN [threw |-> FALSE,
                             text |-> strTrim(SubSeq(value.s, 1,
                                                     indexOf(value.s, "(") - 1))]
                       ELSE [threw |-> FALSE, text |-> value.s]
    ELSE [threw |-> FALSE, text |-> String(value)]

\* whether new RegExp(`{${name}}`, "g") throws, for a name made of word
\* characters: {digits} is a quantifier with nothing to repeat
regExpThrows(name) ==
    Len(name) >= 1 /\ \A i \in 1..Len(name) : isDigit(charAt(name, i))

\* the text such a regular expression matches
placeholder(name) == "{" \o name \o "}"

RECURSIVE getSubstitution(_, _, _, _)
\* the expansion of the replacement text rep for one match: $$, $&, $` and
\* $' are patterns; $1 and the like stay, the expression has no group
getSubstitution(matched, before, after, rep) ==
    IF rep = "" THEN ""
    ELSE IF charAt(rep, 1) = "$" /\ Len(rep) >= 2
         THEN LET c == charAt(rep, 2)
                  rest == getSubstitution(matched, before, after,
                                          SubSeq(rep, 3, Len(rep)))
              IN  CASE c = "$" -> "$" \o rest
                    [] c = "&" -> matched \o rest
                    [] c = "`" -> before \o rest
                    [] c = "'" -> after \o rest
                    [] OTHER -> "$" \o getSubstitution(matched, before, after,
                                           SubSeq(rep, 2, Len(rep)))
         ELSE charAt(rep, 1) \o getSubstitution(matched, before, after,
                                               SubSeq(rep, 2, Len(rep)))

RECURSIVE replaceFrom(_, _, _, _)
\* s from position i on with every match of pat replaced; the matches of
\* a placeholder cannot overlap, so they are all the places where it occurs
replaceFrom(s, i, pat, rep) ==
    LET hits == {j \in i..(Len(s) - Len(pat) + 1) :
                    SubSeq(s, j, j + Len(pat) - 1) = pat}
        next == CHOOSE j \in hits : \A k \in hits : j <= k
    IN  IF hits = {} THEN SubSeq(s, i, Len(s))
        ELSE SubSeq(s, i, next - 1)
                 \o getSubstitution(pat, SubSeq(s, 1, next - 1),
                                    SubSeq(s, next + Len(pat), Len(s)), rep)
                 \o replaceFrom(s, next + Len(pat), pat, rep)

\* prompt.replace(new RegExp(`{${name}}`, "g"), finalValue)
replace(prompt, name, text) == replaceFrom(prompt, 1, placeholder(name), text)

RECURSIVE forEachParameter(_, _, _)
\* preset.parameters.forEach(...): the prompt returned, or the throw
forEachParameter(prompt, params, parameters) ==
    IF params = <<>> THEN Returned(prompt)
    ELSE LET param == Head(params)
             value == coalesce(lookup(parameters, param.name), param.default)
         IN  IF value = None
             THEN forEachParameter(prompt, Tail(params), parameters)
             ELSE IF finalValue(param, value[1]).threw THEN Threw("TypeError")
             ELSE IF regExpThrows(param.name) THEN Threw("SyntaxError")
             ELSE forEachParameter(
                      replace(prompt, param.name, finalValue(param, value[1]).text),
                      Tail(params), parameters)

buildPromptFromPreset(ps, presetId, parameters) ==
    LET preset == getPresetById(ps, presetId)
    IN  IF preset = None THEN Threw("Preset not found")
        ELSE IF "parameters" \in DOMAIN preset[1]
             THEN forEachParameter(preset[1].prompt, preset[1].parameters,
                                   parameters)
             ELSE Returned(preset[1].prompt)

\* afterBuild with the use counted
afterBuildCounted(ps, presetId) ==
    [i \in 1..Len(ps) |->
        IF ps[i].id = presetId THEN [ps[i] EXCEPT !.usageCount = @ + 1]
        ELSE ps[i]]

\* this.customPresets after buildPromptFromPreset: it is only read
afterBuild(ps, presetId) == ps

BuildPromptFromPreset(presetId, parameters) ==
    /\ PFrame
    /\ customIsArray
    /\ out' = buildPromptFromPreset(customPresets, presetId, parameters)
    /\ customPresets' = afterBuild(customPresets, presetId)
    /\ lastOp' = "buildPromptFromPreset"
    /\ lastResult' = 0
    /\ UNCHANGED <<presetsFile, customIsArray, now, nextRandom>>

\* a custom preset on file: a placeholder that occurs twice, a number with
\* a default, a select with options, a string without default
ClipId == <<"custom-", 1, "-", 1>>

ClipPreset ==
    [id |-> ClipId, name |-> "Clip", description |-> "", category |-> "Custom",
     prompt |-> "cut {file} at {at}s and {at}s {mode} {note}",
     parameters |->
        <<parameter("file", "file", None, None),
          parameter("at", "number", Some(NumV(5)), None),
          parameter("mode", "select", Some(StrV("copy (fast)")),
                    Some(<<"copy (fast)", "23 (Medium)", "encode">>)),
          parameter("note", "string", None, None)>>,
     examples |-> <<>>, tags |-> <<>>, difficulty |-> "intermediate",
     commonUse |-> FALSE, isCustom |-> TRUE, createdAt |-> 1, usageCount |-> 0]

\* a custom preset whose parameter is named by a number
FrameId == <<"custom-", 1, "-", 2>>

FramePreset ==
    [id |-> FrameId, name |-> "Frame", description |-> "", category |-> "Custom",
     prompt |-> "frame {2} of {input}",
     parameters |->
        <<parameter("input", "file", None, None),
          parameter("2", "number", None, None)>>,
     examples |-> <<>>, tags |-> <<>>, difficulty |-> "intermediate",
     commonUse |-> FALSE, isCustom |-> TRUE, createdAt |-> 1, usageCount |-> 0]

\* presets.json when the store is constructed
RenderFiles ==
    {[kind |-> "json", doc |-> <<ClipPreset>>],
     [kind |-> "json", doc |-> <<ClipPreset, FramePreset>>]}

\* a call of buildPromptFromPreset on ClipPreset: the parameters object
\* holds undefined for a name it does not supply
clipCall(f, a, m, n) ==
    [presetId |-> ClipId,
     parameters |-> [file |-> f, at |-> a, mode |-> m, note |-> n]]

ClipCalls ==
    {clipCall(f, UndefinedV, UndefinedV, UndefinedV) :
        f \in {UndefinedV, StrV("a.mp4"), StrV("")}}
    \cup {clipCall(StrV("a.mp4"), a, UndefinedV, UndefinedV) :
            a \in {NullV, NumV(0), NumV(7)}}
    \cup {clipCall(StrV("a.mp4"), UndefinedV, m, UndefinedV) :
            m \in {StrV("23 (Medium)"), StrV("encode"), StrV(" slow (best)"),
                   NumV(23)}}
    \cup {clipCall(StrV("a.mp4"), NumV(0), StrV("encode"), n) :
            n \in {StrV("take (2)"), StrV("{at}"), StrV("$&"), StrV("")}}

BuiltInCalls ==
    {[presetId |-> <<"video-to-gif">>,
      parameters |-> [input |-> StrV("a.mp4"), start |-> NumV(5),
                      duration |-> NumV(10)]],
     [presetId |-> <<"video-to-gif">>,
      parameters |-> [input |-> StrV("a.mp4"), start |-> UndefinedV,
                      duration |-> NumV(0)]],
     [presetId |-> <<"trim-video">>,
      parameters |-> [input |-> StrV("a.mp4"), start |-> UndefinedV,
                      duration |-> UndefinedV]],
     [presetId |-> <<"convert-to-mp4">>,
      parameters |-> [input |-> StrV("movie (1).avi"), start |-> UndefinedV,
                      duration |-> UndefinedV]]}

OtherCalls ==
    {[presetId |-> FrameId,
      parameters |-> [k \in {"input", "2"} |->
                        IF k = "2" THEN NumV(9) ELSE StrV("a.mp4")]],
     [presetId |-> <<"no-such-preset">>,
      parameters |-> [k \in {"input", "2"} |->
                        IF k = "2" THEN UndefinedV ELSE StrV("a.mp4")]]}

RenderCalls == ClipCalls \cup BuiltInCalls \cup OtherCalls

\* new PresetManager() on one of the files, with the history store left empty
InitRender ==
    /\ presetsFile \in RenderFiles
    /\ customPresets = loadPresets(presetsFile)
    /\ customIsArray = loadedIsArray(presetsFile)
    /\ out = NoOutput
    /\ nextRandom = 3
    /\ file = [kind |-> "absent", doc |-> <<>>]
    /\ history = <<>>
    /\ now = 2
    /\ nextId = 1
    /\ lastOp = "load"
    /\ lastDays = 0
    /\ lastResult = 0
    /\ trimmed = <<>>
    /\ addsOnly = FALSE
    /\ addCount = [k \in Keys |-> 0]
    /\ steps = 0
    /\ AtRest

\* rendering, and the count of a use that the front end makes after it
NextRender ==
    \/ \E c \in RenderCalls : BuildPromptFromPreset(c.presetId, c.parameters)
    \/ IncrementUsageCount(ClipId)

SpecRender == InitRender /\ [][NextRender]_vars

\* answers that hold the text of a placeholder or a "$", and a preset
\* whose placeholder is a number
SubstitutionCalls ==
    {clipCall(StrV("{at}"), NumV(7), StrV("encode"), StrV("x")),
     clipCall(StrV("a.mp4"), NumV(7), StrV("encode"), StrV("{at}")),
     clipCall(StrV("a.mp4"), NumV(7), StrV("encode"), StrV("$&")),
     clipCall(StrV("a.mp4"), NumV(7), StrV("encode"), StrV("$1")),
     clipCall(StrV("US$$ 5"), NumV(7), StrV("encode"), StrV("x")),
     clipCall(StrV("a.mp4"), NumV(7), StrV("23 (Medium)"), StrV("x")),
     [presetId |-> FrameId,
      parameters |-> [k \in {"input", "2"} |->
                        IF k = "2" THEN NumV(9) ELSE StrV("a.mp4")]]}

\* new PresetManager() on a file with the two custom presets
InitSubstitution ==
    /\ presetsFile = [kind |-> "json", doc |-> <<ClipPreset, FramePreset>>]
    /\ customPresets = loadPresets(presetsFile)
    /\ customIsArray = loadedIsArray(presetsFile)
    /\ out = NoOutput
    /\ nextRandom = 3
    /\ file = [kind |-> "absent", doc |-> <<>>]
    /\ history = <<>>
    /\ now = 2
    /\ nextId = 1
    /\ lastOp = "load"
    /\ lastDays = 0
    /\ lastResult = 0
    /\ trimmed = <<>>
    /\ addsOnly = FALSE
    /\ addCount = [k \in Keys |-> 0]
    /\ steps = 0
    /\ AtRest

NextSubstitution ==
    \/ \E c \in SubstitutionCalls :
            BuildPromptFromPreset(c.presetId, c.parameters)
    \/ \E id \in {ClipId, FrameId} : IncrementUsageCount(id)

SpecSubstitution == InitSubstitution /\ [][NextSubstitution]_vars

(***************************************************************************)
(* add on prompts of every keyword family                                  *)
(***************************************************************************)
\* the characters of a text
chars(s) == [i \in 1..Len(s) |-> charAt(s, i)]

\* prompts typed at the command line
TagPrompts ==
    {chars("convert video.mp4 to webm"), chars("extract audio as mp3"),
     chars("Compress MOVIE.AVI"), chars("make a gif"),
     chars("stream over rtmp"), chars("resize clip"), chars("crop photo"),
     chars("rotate clip")}

\* new HistoryManager() without a history file
InitTags ==
    /\ file = [kind |-> "absent", doc |-> <<>>]
    /\ history = load(file)
    /\ now = 1
    /\ nextId = 1
    /\ lastOp = "load"
    /\ lastDays = 0
    /\ lastResult = 0
    /\ trimmed = <<>>
    /\ addsOnly = FALSE
    /\ addCount = [k \in Keys |-> 0]
    /\ steps = 0
    /\ AtRest
    /\ presetsFile = [kind |-> "absent", doc |-> <<>>]
    /\ customPresets = <<>>
    /\ nextRandom = 1
    /\ customIsArray = TRUE
    /\ out = NoOutput

NextTags == \E prompt \in TagPrompts : Add(prompt, TRUE)

SpecTags == InitTags /\ [][NextTags]_vars

(***************************************************************************)
(* exportHistory("csv")                                                    *)
(***************************************************************************)
RECURSIVE join(_, _)
\* parts.join(sep)
join(parts, sep) ==
    IF parts = <<>> THEN ""
    ELSE IF Len(parts) = 1 THEN parts[1]
    ELSE parts[1] \o sep \o join(Tail(parts), sep)

\* new Date(t).toISOString() for 0 <= t < 1000
toISOString(t) ==
    "1970-01-01T00:00:00."
        \o (IF t < 10 THEN "00" ELSE IF t < 100 THEN "0" ELSE "")
        \o decimal(t) \o "Z"

\* `"${s.replace(/"/g, '""')}"` for the characters of s
quoted(s) ==
    "\"" \o join([i \in 1..Len(s) |-> IF s[i] = "\"" THEN "\"\"" ELSE s[i]], "")
         \o "\""

headers ==
    <<"Timestamp", "Prompt", "Command", "Provider", "Model", "Tags",
      "Favorite", "Execution Count">>

\* the row of one entry
row(entry) ==
    <<toISOString(entry.timestamp), quoted(entry.prompt), quoted(entry.command),
      entry.provider,
      IF entry.model # None /\ entry.model[1] # "" THEN entry.model[1] ELSE "",
      join(entry.tags, ";"),
      IF entry.isFavorite THEN "Yes" ELSE "No",
      decimal(entry.executionCount)>>

\* exportHistory("csv")
exportCsv(h) ==
    join(<<join(headers, ",")>> \o [i \in 1..Len(h) |-> join(row(h[i]), ",")],
         "\n")

ExportHistoryCsv ==
    /\ HFrame
    /\ out' = Returned(exportCsv(history))
    /\ lastOp' = "exportHistory"
    /\ lastResult' = 0
    /\ trimmed' = <<>>
    /\ addsOnly' = FALSE
    /\ addCount' = [k \in Keys |-> 0]
    /\ lastDays' = 0
    /\ UNCHANGED <<history, file, now, nextId>>

\* entries on file: a prompt with a comma and double quotes, a prompt with
\* a line feed and no model
QuotedObject ==
    [id |-> 1, prompt |-> chars("say \"hi\", then cut"), command |-> CommandOk,
     provider |-> "openai", model |-> "gpt-4o", timestamp |-> 1,
     executionCount |-> 2, tags |-> <<"video", "audio">>, isFavorite |-> TRUE]

TwoLineObject ==
    [id |-> 2, prompt |-> chars("cut\nthen join"), command |-> chars("ff -i \"a b\""),
     provider |-> "claude", timestamp |-> 1, executionCount |-> 1,
     tags |-> <<>>, isFavorite |-> FALSE]

CsvFiles ==
    {[kind |-> "json", doc |-> <<QuotedObject>>],
     [kind |-> "json", doc |-> <<TwoLineObject>>],
     [kind |-> "json", doc |-> <<QuotedObject, TwoLineObject>>],
     [kind |-> "json", doc |-> <<>>]}

\* the tags typed for an entry: one of them holds a comma
CsvTags == {<<"4k">>, <<"4k,hdr">>}

\* new HistoryManager() on one of the files
InitCsv ==
    /\ file \in CsvFiles
    /\ history = load(file)
    /\ now = 1
    /\ nextId = 3
    /\ lastOp = "load"
    /\ lastDays = 0
    /\ lastResult = 0
    /\ trimmed = <<>>
    /\ addsOnly = FALSE
    /\ addCount = [k \in Keys |-> 0]
    /\ steps = 0
    /\ AtRest
    /\ presetsFile = [kind |-> "absent", doc |-> <<>>]
    /\ customPresets = <<>>
    /\ nextRandom = 1
    /\ customIsArray = TRUE
    /\ out = NoOutput

NextCsv ==
    \/ ExportHistoryCsv
    \/ \E id \in IdArgs, tags \in CsvTags : AddTags(id, tags)
    \/ \E id \in IdArgs : ToggleFavorite(id)
    \/ \E id \in IdArgs : Delete(id)

SpecCsv == InitCsv /\ [][NextCsv]_vars

(***************************************************************************)
(* The command-line front end: the prompt command and usePreset            *)
(***************************************************************************)
\* historyManager.add(entry) on the store s = [h, nextId, cut]: the array
\* after add and its save(), the id generator, the entries save() cut off
addTo(s, entry, t) ==
    LET h1 == added(s.h, entry, t, s.nextId)
    IN  [h |-> trim(h1),
         nextId |-> IF findExisting(s.h, entry.prompt, entry.command) # 0
                    THEN s.nextId ELSE s.nextId + 1,
         cut |-> trimmedOff(h1)]

RECURSIVE addAll(_, _, _)
\* the calls of historyManager.add that one command makes, in order
addAll(s, entries, t) ==
    IF entries = <<>> THEN s
    ELSE addAll(addTo(s, Head(entries), t), Tail(entries), t)

\* configManager.getDefaultProvider() and getDefaultModel("openai") without
\* configuration
DefaultProvider == "openai"

DefaultModel == "gpt-4o-mini"

\* the argument of add after a generation that returned command
recordOfSuccess(prompt, command, category) ==
    [prompt |-> prompt, command |-> command, provider |-> DefaultProvider,
     model |-> Some(DefaultModel), category |-> category, error |-> None]

\* the argument of add in the catch block of the prompt command
recordOfFailure(prompt, message) ==
    [prompt |-> prompt, command |-> <<>>, provider |-> DefaultProvider,
     model |-> Some(DefaultModel), category |-> None, error |-> Some(message)]

\* what generateFfmpegCommand does: it returns a command or throws
Generations ==
    {[ok |-> TRUE, command |-> CommandOk, message |-> ""],
     [ok |-> FALSE, command |-> <<>>,
      message |-> "No API key found for openai"]}

\* the exit codes of the process spawned by --execute
ExitCodes == {0, 1}

\* the state of the front end after a command
ran(command, generation, gen, recorded, calls) ==
    [command |-> command, generation |-> generation,
     generated |-> gen.command, message |-> gen.message,
     recorded |-> recorded, calls |-> calls]

\* a command of the front end that made the calls of add in recorded
Recorded(op, recorded) ==
    LET s == addAll([h |-> history, nextId |-> nextId, cut |-> <<>>],
                    recorded, now)
    IN  /\ steps < MaxOps
        /\ steps' = steps + 1
        /\ history' = s.h
        /\ nextId' = s.nextId
        /\ trimmed' = s.cut
        /\ file' = IF recorded = <<>> THEN file ELSE written(s.h)
        /\ lastOp' = op
        /\ lastResult' = 0
        /\ lastDays' = 0
        /\ addsOnly' = FALSE
        /\ addCount' = [k \in Keys |-> 0]
        /\ UNCHANGED <<now, cvars>>

\* llmpeg <prompt...> [--execute]: the action of the prompt command
RunPrompt(prompt, gen, execute, exitCode) ==
    LET recorded ==
            IF gen.ok
            THEN <<recordOfSuccess(prompt, gen.command, None)>>
                     \o (IF execute /\ exitCode # 0
                         THEN <<recordOfFailure(prompt,
                                                "Command exited with code 1")>>
                         ELSE <<>>)
            ELSE <<recordOfFailure(prompt, gen.message)>>
    IN  /\ Recorded("prompt", recorded)
        /\ cli' = ran("prompt", IF gen.ok THEN "succeeded" ELSE "failed",
                      gen, recorded, [i \in 1..Len(recorded) |-> "add"])
        /\ UNCHANGED <<pvars, out>>

\* the choices of the list "What would you like to do?"
PresetActions == {"execute", "copy", "cancel"}

\* usePreset counting the use before it generates the command
usedCountingFirst(preset, ok) ==
    (IF "isCustom" \in DOMAIN preset /\ preset.isCustom
     THEN <<"incrementUsageCount">> ELSE <<>>)
        \o (IF ok THEN <<"add">> ELSE <<>>)

\* the calls usePreset makes on the two stores in its try block, in order,
\* when generateFfmpegCommand returned (ok) or threw
used(preset, ok) ==
    IF ok
    THEN <<"add">> \o (IF "isCustom" \in DOMAIN preset /\ preset.isCustom
                       THEN <<"incrementUsageCount">> ELSE <<>>)
    ELSE <<>>

\* usePreset(presetId) with the answers to its questions
UsePreset(presetId, parameters, action, gen) ==
    LET preset == getPresetById(customPresets, presetId)
        built == buildPromptFromPreset(customPresets, presetId, parameters)
        attempted == preset # None /\ built.kind = "returned"
                        /\ action = "execute"
        calls == IF attempted THEN used(preset[1], gen.ok) ELSE <<>>
        recorded ==
            IF \E i \in 1..Len(calls) : calls[i] = "add"
            THEN <<recordOfSuccess(chars(built.text), gen.command,
                                   Some(preset[1].category))>>
            ELSE <<>>
        counted == /\ \E i \in 1..Len(calls) :
                            calls[i] = "incrementUsageCount"
                   /\ indexOfPreset(customPresets, presetId) # 0
        ps == [customPresets EXCEPT
                  ![indexOfPreset(customPresets, presetId)].usageCount = @ + 1]
    IN  /\ customIsArray
        /\ Recorded("usePreset", recorded)
        /\ cli' = ran("usePreset",
                      IF ~attempted THEN "none"
                      ELSE IF gen.ok THEN "succeeded" ELSE "failed",
                      gen, recorded, calls)
        /\ out' = IF preset = None THEN out ELSE built
        /\ customPresets' = IF counted THEN ps ELSE customPresets
        /\ presetsFile' = IF counted THEN writtenPresets(ps) ELSE presetsFile
        /\ UNCHANGED <<nextRandom, customIsArray>>

\* the prompts typed at the command line
CliPrompts == {chars("make a gif"), chars("trim a.mp4")}

\* the presets used and the answers given for their parameters
PresetCalls ==
    {clipCall(StrV("a.mp4"), NumV(5), StrV("encode"), StrV("")),
     [presetId |-> <<"trim-video">>,
      parameters |-> [input |-> StrV("a.mp4"), start |-> StrV("00:00:10"),
                      end |-> StrV("00:00:40")]],
     [presetId |-> <<"no-such-preset">>,
      parameters |-> [input |-> StrV("a.mp4")]]}

\* new HistoryManager() without a history file, new PresetManager() on a
\* file with one custom preset
InitCli ==
    /\ file = [kind |-> "absent", doc |-> <<>>]
    /\ history = load(file)
    /\ now = 1
    /\ nextId = 1
    /\ lastOp = "load"
    /\ lastDays = 0
    /\ lastResult = 0
    /\ trimmed = <<>>
    /\ addsOnly = FALSE
    /\ addCount = [k \in Keys |-> 0]
    /\ steps = 0
    /\ AtRest
    /\ presetsFile = [kind |-> "json", doc |-> <<ClipPreset>>]
    /\ customPresets = loadPresets(presetsFile)
    /\ customIsArray = loadedIsArray(presetsFile)
    /\ nextRandom = 3
    /\ out = NoOutput

\* the runs of the prompt command: the generation fails; it succeeds and
\* --execute is absent, or the command executed exits with 0, or with 1
Runs ==
    {[gen |-> g, execute |-> FALSE, exitCode |-> 0] : g \in Generations}
        \cup {[gen |-> g, execute |-> TRUE, exitCode |-> c] :
                g \in {x \in Generations : x.ok}, c \in ExitCodes}

\* the answers to usePreset: the action chosen and, for "execute", what the
\* generation does
Answers ==
    {[action |-> "execute", gen |-> g] : g \in Generations}
        \cup {[action |-> a, gen |-> CHOOSE g \in Generations : g.ok] :
                a \in PresetActions \ {"execute"}}

NextCli ==
    \/ \E prompt \in CliPrompts, r \in Runs :
            RunPrompt(prompt, r.gen, r.execute, r.exitCode)
    \/ \E c \in PresetCalls, a \in Answers :
            UsePreset(c.presetId, c.parameters, a.action, a.gen)

SpecCli == InitCli /\ [][NextCli]_vars

(***************************************************************************)
(* ConfigManager.  this.config is a function from the settings it holds,   *)
(* named by their path, to their values.                                   *)
(***************************************************************************)
\* { ...c, k: v }
set(c, k, v) == [x \in DOMAIN c \cup {k} |-> IF x = k THEN v ELSE c[x]]

\* loadDotenv({ path, override: false }) on process.env: the variables of
\* the file that process.env does not hold yet; an absent file has none
loadDotenv(env, f) ==
    [k \in DOMAIN env \cup DOMAIN f |-> IF k \in DOMAIN env THEN env[k] ELSE f[k]]

RECURSIVE loadedEnv(_, _)
\* process.env after the loop over envPaths
loadedEnv(env, files) ==
    IF files = <<>> THEN env
    ELSE loadedEnv(loadDotenv(env, Head(files)), Tail(files))

\* this.config after step 1 of load: {} when config.json is absent or
\* JSON.parse throws
parsedConfig(f) == IF f.kind = "json" THEN f.doc ELSE <<>>

\* if (process.env.NAME)
truthyEnv(env, name) == name \in DOMAIN env /\ env[name] # ""

\* the setting each environment variable overrides
SettingOf ==
    [n \in {"OPENAI_API_KEY", "LLMPEG_DEFAULT_PROVIDER"} |->
        IF n = "OPENAI_API_KEY" THEN "openai.apiKey" ELSE "defaultProvider"]

RECURSIVE mergeEnvironmentVariables(_, _, _)
\* mergeEnvironmentVariables for the variables in names
mergeEnvironmentVariables(c, env, names) ==
    IF names = {} THEN c
    ELSE LET n == CHOOSE x \in names : TRUE
         IN  mergeEnvironmentVariables(
                 IF truthyEnv(env, n) THEN set(c, SettingOf[n], env[n]) ELSE c,
                 env, names \ {n})

\* this.config after load()
loadConfig(f, env, files) ==
    mergeEnvironmentVariables(parsedConfig(f), loadedEnv(env, files),
                              DOMAIN SettingOf)

\* getApiKey("openai"): None for undefined
getApiKey(c) == field(c, "openai.apiKey")

\* getDefaultProvider()
getDefaultProvider(c) ==
    IF "defaultProvider" \in DOMAIN c /\ c.defaultProvider # ""
    THEN c.defaultProvider ELSE "openai"

\* a step of the configuration
CFrame ==
    /\ steps < MaxOps
    /\ steps' = steps + 1
    /\ UNCHANGED <<history, file, now, nextId, lastDays, lastResult, trimmed,
                   addsOnly, addCount, pvars, out, cli>>

\* a new process: new ConfigManager()
StartProcess ==
    /\ CFrame
    /\ config' = loadConfig(configFile, systemEnv, dotenv)
    /\ lastOp' = "load"
    /\ UNCHANGED <<configFile, systemEnv, dotenv>>

\* JSON.stringify(this.config, null, 2) written to config.json
writtenConfig(c) == [kind |-> "json", doc |-> c]

\* llmpeg config --openai KEY: setApiKey, then save()
ConfigOpenai(apiKey) ==
    /\ CFrame
    /\ config' = set(config, "openai.apiKey", apiKey)
    /\ configFile' = writtenConfig(config')
    /\ lastOp' = "config"
    /\ UNCHANGED <<systemEnv, dotenv>>

\* llmpeg config --default-provider P: setDefaultProvider, then save()
ConfigDefaultProvider(provider) ==
    /\ CFrame
    /\ config' = set(config, "defaultProvider", provider)
    /\ configFile' = writtenConfig(config')
    /\ lastOp' = "config"
    /\ UNCHANGED <<systemEnv, dotenv>>

\* the shell exports a variable, or unsets it, between two runs
Export(name, value) ==
    /\ CFrame
    /\ systemEnv' = set(systemEnv, name, value)
    /\ lastOp' = "export"
    /\ UNCHANGED <<config, configFile, dotenv>>

\* the environments a process is started with
SystemEnvs ==
    {<<>>, [OPENAI_API_KEY |-> "sk-env"],
     [OPENAI_API_KEY |-> "sk-env", LLMPEG_DEFAULT_PROVIDER |-> "gemini"]}

\* config.json: absent, not JSON, with the default model only, with an API
\* key and a default provider
ConfigFiles ==
    {[kind |-> "absent", doc |-> <<>>],
     [kind |-> "malformed", doc |-> <<>>],
     [kind |-> "json", doc |-> [k \in {"openai.defaultModel"} |-> "gpt-4o"]],
     [kind |-> "json",
      doc |-> [k \in {"openai.apiKey", "defaultProvider"} |->
                  IF k = "openai.apiKey" THEN "sk-file" ELSE "claude"]]}

\* .env, .env.local and ~/.llmpeg/.env
DotenvFiles ==
    {<<<<>>, <<>>, <<>>>>,
     <<[OPENAI_API_KEY |-> "sk-dotenv"], <<>>, <<>>>>,
     <<[OPENAI_API_KEY |-> "sk-dotenv"], [OPENAI_API_KEY |-> "sk-local"],
       [LLMPEG_DEFAULT_PROVIDER |-> "grok"]>>}

\* new ConfigManager() on a machine with these sources
InitConfig ==
    /\ systemEnv \in SystemEnvs
    /\ configFile \in ConfigFiles
    /\ dotenv \in DotenvFiles
    /\ config = loadConfig(configFile, systemEnv, dotenv)
    /\ cli = NoCommand
    /\ file = [kind |-> "absent", doc |-> <<>>]
    /\ history = <<>>
    /\ now = 1
    /\ nextId = 1
    /\ lastOp = "load"
    /\ lastDays = 0
    /\ lastResult = 0
    /\ trimmed = <<>>
    /\ addsOnly = FALSE
    /\ addCount = [k \in Keys |-> 0]
    /\ steps = 0
    /\ presetsFile = [kind |-> "absent", doc |-> <<>>]
    /\ customPresets = <<>>
    /\ nextRandom = 1
    /\ customIsArray = TRUE
    /\ out = NoOutput

NextConfig ==
    \/ StartProcess
    \/ \E apiKey \in {"sk-flag"} : ConfigOpenai(apiKey)
    \/ \E provider \in {"gemini"} : ConfigDefaultProvider(provider)
    \/ \E name \in DOMAIN SettingOf, value \in {"exported"} : Export(name, value)

SpecConfig == InitConfig /\ [][NextConfig]_vars

(***************************************************************************)
(* generateFfmpegCommand                                                   *)
(***************************************************************************)
RECURSIVE lowered(_)
\* toLowerCase of a text
lowered(s) ==
    IF s = "" THEN "" ELSE Lower(charAt(s, 1)) \o lowered(SubSeq(s, 2, Len(s)))

\* the cases of the switch statements over the provider
Providers == {"openai", "claude", "gemini", "grok"}

\* getApiKey(provider): None for undefined
getApiKeyOf(c, provider) ==
    IF lowered(provider) \in Providers
    THEN field(c, lowered(provider) \o ".apiKey") ELSE None

RECURSIVE unescaped(_)
\* rawCommand.replace(/\\"/g, '"')
unescaped(s) ==
    LET i == indexOf(s, "\\\"")
    IN  IF i = 0 THEN s
        ELSE SubSeq(s, 1, i - 1) \o "\"" \o unescaped(SubSeq(s, i + 2, Len(s)))

\* command.replace(/^(\s*ffmpeg)(\s+)/, "$1 -v quiet -stats$2") on a
\* trimmed text
quieted(s) ==
    IF Len(s) > 6 /\ SubSeq(s, 1, 6) = "ffmpeg" /\ isSpace(charAt(s, 7))
    THEN "ffmpeg -v quiet -stats" \o SubSeq(s, 7, Len(s))
    ELSE s

\* generateFfmpegCommand(prompt, { model }) on the configuration c, reply
\* being the text generateText answers with when it is called: what is
\* thrown or returned, and whether generateText was called
generateFfmpegCommand(c, model, reply) ==
    LET modelType == IF model = None THEN getDefaultProvider(c) ELSE model[1]
        apiKey == getApiKeyOf(c, modelType)
        rawCommand == strTrim(reply)
    IN  IF apiKey = None \/ ~truthyStr(apiKey[1])
        THEN [ok |-> FALSE, called |-> FALSE, command |-> "",
              message |-> "No API key found for " \o modelType]
        ELSE IF lowered(modelType) \notin Providers
        THEN [ok |-> FALSE, called |-> FALSE, command |-> "",
              message |-> "Unknown model type: " \o modelType
                  \o ". Supported models: openai, claude, gemini, grok"]
        ELSE IF ~truthyStr(rawCommand)
        THEN [ok |-> FALSE, called |-> TRUE, command |-> "",
              message |-> "Failed to generate a response."]
        ELSE [ok |-> TRUE, called |-> TRUE,
              command |-> quieted(unescaped(rawCommand)), message |-> ""]

\* a call of generateFfmpegCommand
Generate(model, reply) ==
    LET g == generateFfmpegCommand(config, model, reply)
    IN  /\ steps < MaxOps
        /\ steps' = steps + 1
        /\ UNCHANGED <<history, file, now, nextId, lastDays, lastResult,
                       trimmed, addsOnly, addCount, pvars, out>>
        /\ cli' = ran("generate", IF g.ok THEN "succeeded" ELSE "failed",
                      [command |-> chars(g.command), message |-> g.message],
                      <<>>, IF g.called THEN <<"generateText">> ELSE <<>>)
        /\ lastOp' = "generate"
        /\ UNCHANGED cvars

\* the selectors given with --model, None when the option is absent
Models ==
    {None, Some("openai"), Some("OpenAI"), Some("claude"), Some("mistral"),
     Some("")}

\* what the text-generation service answers
Replies == {"", " ffmpeg -i a.mov -an \\\"b c.mp4\\\"\n"}

\* config.json with a key for openai and one filed under a provider that
\* is not supported, or with an unsupported default provider
GenerateFiles ==
    {[kind |-> "absent", doc |-> <<>>],
     [kind |-> "json",
      doc |-> [k \in {"openai.apiKey", "mistral.apiKey"} |->
                  IF k = "openai.apiKey" THEN "sk-file" ELSE "sk-mistral"]],
     [kind |-> "json",
      doc |-> [k \in {"mistral.apiKey", "defaultProvider"} |->
                  IF k = "mistral.apiKey" THEN "sk-mistral" ELSE "mistral"]]}

\* new ConfigManager() on a machine with these sources
InitGenerate ==
    /\ systemEnv \in {<<>>, [OPENAI_API_KEY |-> "sk-env"]}
    /\ configFile \in GenerateFiles
    /\ dotenv = <<<<>>, <<>>, <<>>>>
    /\ config = loadConfig(configFile, systemEnv, dotenv)
    /\ cli = NoCommand
    /\ file = [kind |-> "absent", doc |-> <<>>]
    /\ history = <<>>
    /\ now = 1
    /\ nextId = 1
    /\ lastOp = "load"
    /\ lastDays = 0
    /\ lastResult = 0
    /\ trimmed = <<>>
    /\ addsOnly = FALSE
    /\ addCount = [k \in Keys |-> 0]
    /\ steps = 0
    /\ presetsFile = [kind |-> "absent", doc |-> <<>>]
    /\ customPresets = <<>>
    /\ nextRandom = 1
    /\ customIsArray = TRUE
    /\ out = NoOutput

NextGenerate ==
    \/ \E model \in Models, reply \in Replies : Generate(model, reply)
    \/ \E apiKey \in {"sk-flag"} : ConfigOpenai(apiKey)
    \/ \E provider \in {"mistral"} : ConfigDefaultProvider(provider)

SpecGenerate == InitGenerate /\ [][NextGenerate]_vars

(***************************************************************************)
(* importHistory on payloads written by hand and by other stores           *)
(***************************************************************************)
\* an entry as a store that migrated it at load exported it: executionCount
\* is 0
PayloadZero ==
    [id |-> 98, prompt |-> chars("crop"), command |-> CommandOk,
     provider |-> "gemini", timestamp |-> 1, executionCount |-> 0,
     tags |-> <<>>, isFavorite |-> FALSE]

\* the record of a failed generation attempt: the command is empty
PayloadFailed ==
    [id |-> 97, prompt |-> PromptTrim, command |-> <<>>,
     provider |-> "openai", timestamp |-> 1, executionCount |-> 1,
     tags |-> <<>>, isFavorite |-> FALSE, error |-> "No API key found"]

\* the parsed arrays importHistory is given
ImportPayloads ==
    {<<PayloadFull>>, <<PayloadMinimal>>, <<PayloadZero>>,
     <<PayloadMinimal, PayloadMinimal>>,
     <<PayloadNoCommand, PayloadFull, PayloadFailed>>,
     <<PayloadMinimal, PayloadNoCommand, PayloadFull>>,
     <<PayloadFull, JsNull>>}

\* new HistoryManager() on an absent file or on a file with one entry
InitImport ==
    /\ file \in {[kind |-> "absent", doc |-> <<>>],
                 [kind |-> "json", doc |-> <<LegacyObject>>]}
    /\ history = load(file)
    /\ now = 2
    /\ nextId = 2
    /\ lastOp = "load"
    /\ lastDays = 0
    /\ lastResult = 0
    /\ trimmed = <<>>
    /\ addsOnly = FALSE
    /\ addCount = [k \in Keys |-> 0]
    /\ steps = 0
    /\ AtRest
    /\ presetsFile = [kind |-> "absent", doc |-> <<>>]
    /\ customPresets = <<>>
    /\ nextRandom = 1
    /\ customIsArray = TRUE
    /\ out = NoOutput

NextImport ==
    \/ \E items \in ImportPayloads :
            ImportHistory([format |-> "json", kind |-> "array", items |-> items])
    \/ \E id \in IdArgs : Delete(id)
    \/ \E id \in IdArgs : ToggleFavorite(id)
    \/ Tick

SpecImport == InitImport /\ [][NextImport]_vars

(***************************************************************************)
(* The queries of the history store                                        *)
(***************************************************************************)
\* a query that returned the array entries
Listed(entries) == [kind |-> "entries", text |-> "", entries |-> entries]

RECURSIVE pickUpTo(_, _, _)
\* the elements of h at the positions of S up to n, in order
pickUpTo(h, S, n) ==
    IF n = 0 THEN <<>>
    ELSE pickUpTo(h, S, n - 1) \o (IF n \in S THEN <<h[n]>> ELSE <<>>)

\* h.filter(...) for the predicate that holds at the positions S: a new array
filter(h, S) == pickUpTo(h, S, Len(h))

\* h.slice(0, limit) for limit >= 0
slice(h, limit) == SubSeq(h, 1, IF limit < Len(h) THEN limit ELSE Len(h))

RECURSIVE insertByCount(_, _)
\* e, which preceded every element of s, put into s sorted by
\* executionCount descending
insertByCount(e, s) ==
    IF s = <<>> THEN <<e>>
    ELSE IF Head(s).executionCount > e.executionCount
         THEN <<Head(s)>> \o insertByCount(e, Tail(s))
         ELSE <<e>> \o s

RECURSIVE sortByCount(_)
\* h.sort((a, b) => b.executionCount - a.executionCount)
sortByCount(h) ==
    IF h = <<>> THEN <<>> ELSE insertByCount(Head(h), sortByCount(Tail(h)))

\* getRecent that slices without sorting
getRecentUnsorted(h, limit) == slice(h, limit)

\* the array getRecent(limit) returns
getRecent(h, limit) == slice(sortDesc(h), limit)

getFavorites(h) ==
    sortByCount(filter(h, {i \in 1..Len(h) : h[i].isFavorite}))

getMostUsed(h, limit) ==
    slice(sortByCount(filter(h, {i \in 1..Len(h) : h[i].executionCount > 1})),
          limit)

\* search(query), the query given by its characters
search(h, query) ==
    LET lowerQuery == toLowerCase(query)
    IN  filter(h, {i \in 1..Len(h) :
            \/ includes(toLowerCase(h[i].prompt), lowerQuery)
            \/ includes(toLowerCase(h[i].command), lowerQuery)
            \/ \E t \in 1..Len(h[i].tags) :
                    includes(toLowerCase(chars(h[i].tags[t])), lowerQuery)
            \/ /\ h[i].category # None /\ h[i].category[1] # ""
               /\ includes(toLowerCase(chars(h[i].category[1])), lowerQuery)})

getByTag(h, tag) ==
    filter(h, {i \in 1..Len(h) :
        \E t \in 1..Len(h[i].tags) :
            toLowerCase(chars(h[i].tags[t])) = toLowerCase(chars(tag))})

getByCategory(h, category) ==
    filter(h, {i \in 1..Len(h) :
        /\ h[i].category # None /\ h[i].category[1] # ""
        /\ toLowerCase(chars(h[i].category[1])) = toLowerCase(chars(category))})

\* a query that reads this.history and returns result
Query(op, result) ==
    /\ HFrame
    /\ out' = Listed(result)
    /\ lastOp' = op
    /\ lastResult' = 0
    /\ trimmed' = <<>>
    /\ addsOnly' = FALSE
    /\ addCount' = [k \in Keys |-> 0]
    /\ lastDays' = 0
    /\ UNCHANGED <<history, file, now, nextId>>

\* getRecent(limit) with its result
GetRecentOf(limit) ==
    /\ HFrame
    /\ SortsInPlace
    /\ out' = Listed(getRecent(history, limit))

GetFavorites == Query("getFavorites", getFavorites(history))

GetMostUsed(limit) == Query("getMostUsed", getMostUsed(history, limit))

Search(query) == Query("search", search(history, query))

GetByTag(tag) == Query("getByTag", getByTag(history, tag))

GetByCategory(category) ==
    Query("getByCategory", getByCategory(history, category))

\* the arguments of add: a generation and the same prompt and command
\* recorded again with another provider, no model, a category and an error,
\* the prompt in capitals, another prompt
recordOf(prompt, provider, model, category, error) ==
    [prompt |-> prompt, command |-> CommandOk, provider |-> provider,
     model |-> model, category |-> category, error |-> error]

QueryEntries ==
    {recordOf(PromptToGif, "openai", Some("gpt-4o"), None, None),
     recordOf(PromptToGif, "claude", None, Some("Video"), Some("late")),
     recordOf(PromptToGifUpper, "gemini", Some("gemini-pro"), Some("GIF"), None),
     recordOf(PromptTrim, "openai", Some("gpt-4o"), Some("Video"), None)}

\* entries on file: a favorite used three times, a newer entry used once
OldFavoriteObject ==
    [id |-> 1, prompt |-> PromptTrim, command |-> CommandOk,
     provider |-> "openai", timestamp |-> 1, executionCount |-> 3,
     tags |-> <<"video">>, isFavorite |-> TRUE, category |-> "Video"]

NewerObject ==
    [id |-> 2, prompt |-> PromptToGif, command |-> CommandOk,
     provider |-> "claude", timestamp |-> 2, executionCount |-> 1,
     tags |-> <<"conversion", "gif">>, isFavorite |-> FALSE]

QueryFiles ==
    {[kind |-> "absent", doc |-> <<>>],
     [kind |-> "json", doc |-> <<NewerObject, OldFavoriteObject>>]}

\* the limits of getRecent and getMostUsed
Limits == {1, 10}

\* new HistoryManager() on one of the files
InitQuery ==
    /\ file \in QueryFiles
    /\ history = load(file)
    /\ now = 3
    /\ nextId = 3
    /\ lastOp = "load"
    /\ lastDays = 0
    /\ lastResult = 0
    /\ trimmed = <<>>
    /\ addsOnly = FALSE
    /\ addCount = [k \in Keys |-> 0]
    /\ steps = 0
    /\ AtRest
    /\ presetsFile = [kind |-> "absent", doc |-> <<>>]
    /\ customPresets = <<>>
    /\ nextRandom = 1
    /\ customIsArray = TRUE
    /\ out = NoOutput

NextQuery ==
    \/ \E entry \in QueryEntries : AddEntry(entry)
    \/ \E limit \in Limits : GetRecentOf(limit)
    \/ GetFavorites
    \/ \E limit \in Limits : GetMostUsed(limit)
    \/ \E query \in {chars("GIF"), chars("video")} : Search(query)
    \/ \E tag \in {"Video"} : GetByTag(tag)
    \/ \E category \in {"video"} : GetByCategory(category)
    \/ ExportHistoryCsv
    \/ Tick

SpecQuery == InitQuery /\ [][NextQuery]_vars

(***************************************************************************)
(* getStats.  The tallies are objects; an object is the sequence of its    *)
(* properties [key, count] in the order Object.entries lists them: the     *)
(* keys that are array indices in ascending numeric order, then the other  *)
(* keys in the order in which they were created.                           *)
(***************************************************************************)
digit(c) == indexOf("0123456789", c) - 1

RECURSIVE lexLess(_, _)
\* a < b for two texts of digits of the same length
lexLess(a, b) ==
    IF a = "" THEN FALSE
    ELSE IF charAt(a, 1) # charAt(b, 1)
         THEN digit(charAt(a, 1)) < digit(charAt(b, 1))
         ELSE lexLess(SubSeq(a, 2, Len(a)), SubSeq(b, 2, Len(b)))

\* the key is the canonical text of an array index, 0 to 2^32 - 2
isIndexKey(k) ==
    /\ Len(k) \in 1..10
    /\ \A i \in 1..Len(k) : isDigit(charAt(k, i))
    /\ Len(k) > 1 => charAt(k, 1) # "0"
    /\ Len(k) = 10 => lexLess(k, "4294967295")

\* the numeric order of two array-index keys
indexBefore(a, b) ==
    Len(a) < Len(b) \/ (Len(a) = Len(b) /\ lexLess(a, b))

\* acc[key] = (acc[key] || 0) + 1 with every new key put after the others
countedAtEnd(acc, key) ==
    LET hits == {i \in 1..Len(acc) : acc[i].key = key}
    IN  IF hits # {}
        THEN [i \in 1..Len(acc) |->
                IF i \in hits THEN [acc[i] EXCEPT !.count = @ + 1] ELSE acc[i]]
        ELSE Append(acc, [key |-> key, count |-> 1])

\* acc[key] = (acc[key] || 0) + 1
counted(acc, key) ==
    LET hits == {i \in 1..Len(acc) : acc[i].key = key}
        n == Cardinality({i \in 1..Len(acc) :
                            /\ isIndexKey(acc[i].key)
                            /\ indexBefore(acc[i].key, key)})
    IN  IF hits # {}
        THEN [i \in 1..Len(acc) |->
                IF i \in hits THEN [acc[i] EXCEPT !.count = @ + 1] ELSE acc[i]]
        ELSE IF isIndexKey(key)
             THEN SubSeq(acc, 1, n) \o <<[key |-> key, count |-> 1]>>
                      \o SubSeq(acc, n + 1, Len(acc))
             ELSE Append(acc, [key |-> key, count |-> 1])

RECURSIVE reduce(_)
\* keys.reduce((acc, key) => { acc[key] = (acc[key] || 0) + 1; ... }, {})
reduce(keys) ==
    IF keys = <<>> THEN <<>>
    ELSE counted(reduce(SubSeq(keys, 1, Len(keys) - 1)), keys[Len(keys)])

RECURSIVE insertByValue(_, _)
\* e, which preceded every element of s, put into s sorted by count
\* descending
insertByValue(e, s) ==
    IF s = <<>> THEN <<e>>
    ELSE IF Head(s).count > e.count
         THEN <<Head(s)>> \o insertByValue(e, Tail(s))
         ELSE <<e>> \o s

RECURSIVE sortByValue(_)
\* Object.entries(tally).sort(([, a], [, b]) => b - a)
sortByValue(entries) ==
    IF entries = <<>> THEN <<>>
    ELSE insertByValue(Head(entries), sortByValue(Tail(entries)))

\* sorted[0]?.[0] || fallback
mostUsed(tally, fallback) ==
    LET sorted == sortByValue(tally)
    IN  IF sorted # <<>> /\ truthyStr(sorted[1].key)
        THEN sorted[1].key ELSE fallback

\* the providers of the entries, in store order
providerKeys(h) == [i \in 1..Len(h) |-> h[i].provider]

\* the categories of the entries that have a truthy one, in store order
categoryKeys(h) ==
    LET with == filter(h, {i \in 1..Len(h) :
                              /\ h[i].category # None
                              /\ truthyStr(h[i].category[1])})
    IN  [i \in 1..Len(with) |-> with[i].category[1]]

\* the number of entries newer than t - span
since(h, t, span) ==
    Cardinality({i \in 1..Len(h) : h[i].timestamp > t - span})

\* the object getStats returns at time t
getStats(h, t) ==
    [totalCommands |-> Len(h),
     favoriteCount |-> Cardinality({i \in 1..Len(h) : h[i].isFavorite}),
     mostUsedProvider |-> mostUsed(reduce(providerKeys(h)), "none"),
     mostUsedCategory |-> mostUsed(reduce(categoryKeys(h)), "uncategorized"),
     commandsToday |-> since(h, t, DayMs),
     commandsThisWeek |-> since(h, t, 7 * DayMs),
     commandsThisMonth |-> since(h, t, 30 * DayMs)]

\* a call that returned the statistics stats
Computed(stats) == [kind |-> "stats", text |-> "", stats |-> stats]

GetStats ==
    /\ HFrame
    /\ out' = Computed(getStats(history, now))
    /\ lastOp' = "getStats"
    /\ lastResult' = 0
    /\ trimmed' = <<>>
    /\ addsOnly' = FALSE
    /\ addCount' = [k \in Keys |-> 0]
    /\ lastDays' = 0
    /\ UNCHANGED <<history, file, now, nextId>>

\* what the front end records: two providers, no category
StatsEntries ==
    {recordOf(PromptToGif, "openai", Some("gpt-4o"), None, None),
     recordOf(PromptTrim, "claude", None, None, None)}

\* the answers to "Enter category:"
StatsCategories == {"Video", "2024", "7"}

\* new HistoryManager() without a history file, or on a file with two
\* entries of which one has a category
InitStats ==
    /\ file \in QueryFiles
    /\ history = load(file)
    /\ now = 3
    /\ nextId = 3
    /\ lastOp = "load"
    /\ lastDays = 0
    /\ lastResult = 0
    /\ trimmed = <<>>
    /\ addsOnly = FALSE
    /\ addCount = [k \in Keys |-> 0]
    /\ steps = 0
    /\ AtRest
    /\ presetsFile = [kind |-> "absent", doc |-> <<>>]
    /\ customPresets = <<>>
    /\ customIsArray = TRUE
    /\ nextRandom = 1
    /\ out = NoOutput

NextStats ==
    \/ \E entry \in StatsEntries : AddEntry(entry)
    \/ \E id \in IdArgs, category \in StatsCategories :
            SetCategory(id, category)
    \/ \E id \in IdArgs : ToggleFavorite(id)
    \/ GetStats
    \/ Tick

SpecStats == InitStats /\ [][NextStats]_vars

(***************************************************************************)
(* Properties of the history store                                         *)
(***************************************************************************)
\* the indices of the entries of h that add() treats as the pair k
entriesOf(h, k) ==
    {i \in 1..Len(h) : <<toLowerCase(h[i].prompt), h[i].command>> = k}

\* C1: after a sequence of add calls alone on a store that started empty,
\* with nothing cut off by the capacity limit, every (lowercased prompt,
\* command) pair that was added n > 0 times has exactly one entry, whose
\* executionCount is n, and a pair never added has none.
C1_DedupCount ==
    addsOnly =>
        \A k \in Keys :
            IF addCount[k] = 0
            THEN entriesOf(history, k) = {}
            ELSE /\ Cardinality(entriesOf(history, k)) = 1
                 /\ \A i \in entriesOf(history, k) :
                        history[i].executionCount = addCount[k]

\* two pairs were added, one of them more than once
C1_Witness ==
    /\ addsOnly
    /\ Len(history) >= 2
    /\ \E k \in Keys : addCount[k] >= 2

\* C2: no two entries have the same command and prompts that are equal
\* ignoring case.
C2_NoDuplicatePairs ==
    \A i, j \in 1..Len(history) :
        i # j =>
            ~(/\ toLowerCase(history[i].prompt) = toLowerCase(history[j].prompt)
              /\ history[i].command = history[j].command)

C4_FavoritesSurviveTrimming ==
    [][trimmed' # <<>> =>
        \A i \in 1..Len(history) :
            history[i].isFavorite =>
                \E j \in 1..Len(history') : history'[j].id = history[i].id]_vars

\* the claim's reading of the age test: removed when strictly older
RECURSIVE retainedStrict(_, _)
retainedStrict(h, cutoff) ==
    IF h = <<>> THEN <<>>
    ELSE IF Head(h).isFavorite \/ ~(Head(h).timestamp < cutoff)
         THEN <<Head(h)>> \o retainedStrict(Tail(h), cutoff)
         ELSE retainedStrict(Tail(h), cutoff)

\* the entries that are favorited or newer than the cutoff
RECURSIVE retainedNewer(_, _)
retainedNewer(h, cutoff) ==
    IF h = <<>> THEN <<>>
    ELSE IF ~(~Head(h).isFavorite /\ Head(h).timestamp <= cutoff)
         THEN <<Head(h)>> \o retainedNewer(Tail(h), cutoff)
         ELSE retainedNewer(Tail(h), cutoff)

\* C5 as stated: clearOldEntries(daysToKeep) removes an entry if and only
\* if it is not favorited and its timestamp is strictly less than now minus
\* daysToKeep days; the other entries stay, unchanged and in order.
C5_RemovesStrictlyOlder ==
    [][lastOp' = "clearOldEntries" =>
        history' = retainedStrict(history, now - lastDays' * DayMs)]_vars

\* C5 amended: clearOldEntries(daysToKeep) removes an entry if and only if
\* it is not favorited and its timestamp is less than or equal to now minus
\* daysToKeep days; every favorited entry and every entry newer than the
\* cutoff stays, unchanged and in order, and the count removed is returned.
C5_RemovesNotNewer ==
    [][lastOp' = "clearOldEntries" =>
        /\ history' = retainedNewer(history, now - lastDays' * DayMs)
        /\ lastResult' = Len(history) - Len(history')]_vars

\* clearOldEntries removed an entry and left a favorite that is not newer
\* than the cutoff
C5_Witness ==
    /\ lastOp = "clearOldEntries"
    /\ lastResult >= 1
    /\ \E i \in 1..Len(history) :
            /\ history[i].isFavorite
            /\ history[i].timestamp <= now - lastDays * DayMs

\* the fields of an entry other than its id
content(e) == [e EXCEPT !.id = 0]

\* C6: importHistory(exportHistory("json")) into an empty store yields as
\* many entries as the store has, with the same prompt, command, provider,
\* model, timestamp, executionCount, tags, isFavorite, category and error
\* (stated for the stores whose entries all have executionCount >= 1).
C6_JsonRoundTrip ==
    (\A i \in 1..Len(history) : history[i].executionCount >= 1) =>
        LET copy == imported(<<>>, exportJson(history), now, nextId)
        IN  /\ Len(copy) = Len(history)
            /\ \A i \in 1..Len(copy) : content(copy[i]) = content(history[i])

\* C7: importing the export of the store into an empty store and then
\* importing the same export again leaves the second store as the first
\* import made it: nothing is inserted and no entry changes.
C7_ReimportInsertsNothing ==
    LET data == exportJson(history)
        first == merged(<<>>, validEntries(data), now, nextId)
        second == merged(trim(first.h), validEntries(data), now, first.nextId)
    IN  trim(second.h) = trim(first.h)

\* an importHistory has run and the export holds two entries that an import
\* into an empty store inserts
C7_Witness ==
    /\ lastOp = "importHistory"
    /\ Len(imported(<<>>, exportJson(history), now, nextId)) >= 2

\* C8: every entry has an executionCount of at least 1.
C8_ExecutionCountPositive ==
    \A i \in 1..Len(history) : history[i].executionCount >= 1

\* C9: history entry ids are unique: no two entries of the store share an
\* id (the first half of the claim, which its second half, that ids never
\* change, does not restore).
C9_IdsUnique ==
    \A i, j \in 1..Len(history) : i # j => history[i].id # history[j].id

(***************************************************************************)
(* Properties of the preset store                                          *)
(***************************************************************************)
\* C10: the ids of the combined catalog, built-ins followed by customs, are
\* pairwise distinct.
C10_CatalogIdsDistinct ==
    LET all == getAllPresets(customPresets)
    IN  \A i, j \in 1..Len(all) : i # j => all[i].id # all[j].id

\* the operations of the history store that change it
Mutators ==
    {"add", "toggleFavorite", "addTags", "setCategory", "delete", "clear",
     "clearOldEntries", "importHistory"}

\* C16: after every mutating operation of the history store returns, the
\* history file holds exactly the in-memory entries, so that a process
\* constructed from the file at that point has the same entries in the same
\* order.
C16_FileHoldsCollection ==
    lastOp \in Mutators => load(file) = history

\* C17: importHistory raises an error for format csv, for data that is
\* not JSON and for JSON that is not an array, and whenever it raises an
\* error the in-memory entries and the history file are as before the call.
C17_FailedImportChangesNothing ==
    [][/\ \A a \in ImportArgs(history) :
            (a.format = "csv" \/ a.kind # "array") /\ ImportHistory(a)
                => lastOp' = "importHistory threw"
       /\ lastOp' = "importHistory threw" => UNCHANGED <<history, file>>]_vars

\* an import threw on a store that holds entries that are on file
C17_Witness ==
    /\ lastOp = "importHistory threw"
    /\ history # <<>>
    /\ file.kind = "json"

\* C18: toggleFavorite(id) on the id of an entry flips isFavorite of one
\* entry with that id, leaves every other entry and every other field as it
\* was, and returns the new value; on an id that no entry has it returns
\* false and leaves the entries and the file unchanged.
C18_ToggleFavorite ==
    [][\A id \in IdArgs :
        ToggleFavorite(id) =>
            IF \E i \in 1..Len(history) : history[i].id = id
            THEN /\ Len(history') = Len(history)
                 /\ \E i \in 1..Len(history) :
                        /\ history[i].id = id
                        /\ history'[i].isFavorite = ~history[i].isFavorite
                        /\ lastResult' = IF history'[i].isFavorite THEN 1 ELSE 0
                        /\ [history'[i] EXCEPT !.isFavorite = ~@] = history[i]
                        /\ \A j \in 1..Len(history) :
                                j # i => history'[j] = history[j]
            ELSE /\ lastResult' = 0
                 /\ UNCHANGED <<history, file>>]_vars

\* a toggle made an entry a favorite in a store of two entries
C18_Witness ==
    /\ lastOp = "toggleFavorite"
    /\ lastResult = 1
    /\ Len(history) = 2
    /\ \E i \in 1..2 : history[i].isFavorite /\ ~history[3 - i].isFavorite

\* the keyword families of the tags
TagFamilies ==
    {[tag |-> "video", keywords |-> {"video", "mp4", "avi"}],
     [tag |-> "audio", keywords |-> {"audio", "mp3", "sound"}],
     [tag |-> "conversion", keywords |-> {"convert", "to"}],
     [tag |-> "compression", keywords |-> {"compress", "reduce", "optimize"}],
     [tag |-> "gif", keywords |-> {"gif"}],
     [tag |-> "streaming", keywords |-> {"stream", "rtmp", "hls"}],
     [tag |-> "extraction", keywords |-> {"extract"}],
     [tag |-> "resize", keywords |-> {"resize", "scale", "resolution"}]}

\* the tags of the families of which a keyword occurs in the lowercased
\* prompt
tagsOfFamilies(prompt) ==
    {f.tag : f \in {g \in TagFamilies :
                        \E w \in g.keywords :
                            includes(toLowerCase(prompt), chars(w))}}

\* C19: the tags of an entry that add created are exactly the tags of the
\* keyword families of which a keyword is a substring of the lowercased
\* prompt, each once: several when several families occur, none when none
\* does.
C19_TagsOfKeywordFamilies ==
    \A i \in 1..Len(history) :
        /\ {history[i].tags[j] : j \in 1..Len(history[i].tags)}
                = tagsOfFamilies(history[i].prompt)
        /\ Len(history[i].tags) = Cardinality(tagsOfFamilies(history[i].prompt))

\* add created an entry with two tags and an entry with none
C19_Witness ==
    /\ lastOp = "add"
    /\ \E i, j \in 1..Len(history) :
            /\ history[i].tags = <<"video", "conversion">>
            /\ history[j].tags = <<>>

\* the n-th smallest element of a set of numbers
nth(S, n) == CHOOSE x \in S : Cardinality({y \in S : y < x}) = n - 1

RECURSIVE undoubled(_)
\* s with every pair of double quotes made one
undoubled(s) ==
    IF s = "" THEN ""
    ELSE IF Len(s) >= 2 /\ SubSeq(s, 1, 2) = "\"\""
         THEN "\"" \o undoubled(SubSeq(s, 3, Len(s)))
         ELSE charAt(s, 1) \o undoubled(SubSeq(s, 2, Len(s)))

\* C20: the text of exportHistory("csv"), read as CSV (a comma or a line
\* feed between double quotes separates nothing), has one record per entry
\* after the header, every record has 8 fields, and the second and third
\* field of the record of an entry are its prompt and its command between
\* double quotes with every double quote inside doubled.
C20_CsvShape ==
    lastOp = "exportHistory" =>
        LET text == out.text
            outside(i) ==
                Cardinality({j \in 1..(i - 1) : charAt(text, j) = "\""}) % 2 = 0
            breaks == {i \in 1..Len(text) : charAt(text, i) = "\n" /\ outside(i)}
            commas == {i \in 1..Len(text) : charAt(text, i) = "," /\ outside(i)}
            bounds == breaks \cup {0, Len(text) + 1}
            inside(r) == {c \in commas : nth(bounds, r) < c /\ c < nth(bounds, r + 1)}
            fieldOf(r, k) ==
                SubSeq(text, nth(inside(r), k - 1) + 1, nth(inside(r), k) - 1)
            bare(f) == undoubled(SubSeq(f, 2, Len(f) - 1))
        IN  /\ Cardinality(breaks) = Len(history)
            /\ \A r \in 1..(Len(history) + 1) : Cardinality(inside(r)) = 7
            /\ \A i \in 1..Len(history) :
                    /\ bare(fieldOf(i + 1, 2)) = join(history[i].prompt, "")
                    /\ bare(fieldOf(i + 1, 3)) = join(history[i].command, "")

\* the ids of the built-in presets
BuiltInIds == {builtInPresets[i].id : i \in 1..Len(builtInPresets)}

\* C11: updateCustomPreset or deleteCustomPreset called with the id of a
\* built-in preset returns false and changes neither the custom catalog nor
\* the presets file (the built-in catalog itself is a constant of the
\* program that no operation assigns).
C11_BuiltInIdsRejected ==
    [][\A b \in BuiltInIds :
        (DeleteCustomPreset(b) \/ \E u \in Updates : UpdateCustomPreset(b, u))
            => /\ lastResult' = 0
               /\ UNCHANGED <<customPresets, presetsFile>>]_vars

\* C15: constructing a store never fails because of its file, and when the
\* file is absent or is anything but a JSON array of records the store
\* starts empty and usable: its collection is an empty array.
C15_MalformedFileLoadsEmpty ==
    lastOp = "load" =>
        /\ file.kind # "json" => history = <<>>
        /\ presetsFile.kind # "json" => customPresets = <<>> /\ customIsArray

(***************************************************************************)
(* Properties of buildPromptFromPreset                                     *)
(***************************************************************************)
\* the value a declared parameter is rendered with: the supplied one if one
\* is given, else the default, else none
chosen(parameters, param) ==
    IF lookup(parameters, param.name) # None
            /\ lookup(parameters, param.name)[1].t # "null"
    THEN lookup(parameters, param.name)
    ELSE param.default

RECURSIVE substituted(_, _, _)
\* template from position i on, read once from left to right, with texts[k]
\* put wherever the placeholder of names[k] stands and texts[k] is not None
substituted(template, i, texts) ==
    LET at(j) == {k \in 1..Len(texts) :
                    /\ texts[k].text # None
                    /\ j + Len(placeholder(texts[k].name)) - 1 <= Len(template)
                    /\ SubSeq(template, j,
                              j + Len(placeholder(texts[k].name)) - 1)
                            = placeholder(texts[k].name)}
        starts == {j \in i..Len(template) : at(j) # {}}
        j == CHOOSE m \in starts : \A n \in starts : m <= n
        k == CHOOSE m \in at(j) : \A n \in at(j) : m <= n
    IN  IF starts = {} THEN SubSeq(template, i, Len(template))
        ELSE SubSeq(template, i, j - 1) \o texts[k].text[1]
                 \o substituted(template, j + Len(placeholder(texts[k].name)),
                                texts)

\* the preset a call addresses, when there is one
presetOf(c) == getPresetById(customPresets, c.presetId)

\* a call whose values are strings and numbers, a string for a select, in
\* which no value text holds "$" or "{" and no parameter is named by a
\* number
regular(c) ==
    /\ presetOf(c) # None
    /\ \A k \in 1..Len(presetOf(c)[1].parameters) :
        LET param == presetOf(c)[1].parameters[k]
            v == chosen(c.parameters, param)
        IN  /\ ~regExpThrows(param.name)
            /\ v # None =>
                /\ v[1].t \in {"string", "number"}
                /\ param.type = "select" => v[1].t = "string"
                /\ indexOf(String(v[1]), "$") = 0
                /\ indexOf(String(v[1]), "{") = 0

\* a regular call in which no value text holds "(" either
plain(c) ==
    /\ regular(c)
    /\ \A k \in 1..Len(presetOf(c)[1].parameters) :
        LET v == chosen(c.parameters, presetOf(c)[1].parameters[k])
        IN  v # None => indexOf(String(v[1]), "(") = 0

\* C12: for a call with plain values, buildPromptFromPreset returns the
\* template with every occurrence of {name} of each declared parameter
\* replaced by the supplied value if one is given (0 and "" included), else
\* by the default; the placeholder of a parameter with neither stays.
C12_SuppliedElseDefault ==
    [][\A c \in RenderCalls :
        BuildPromptFromPreset(c.presetId, c.parameters) /\ plain(c) =>
            out' = Returned(substituted(presetOf(c)[1].prompt, 1,
                    [k \in 1..Len(presetOf(c)[1].parameters) |->
                        LET param == presetOf(c)[1].parameters[k]
                            v == chosen(c.parameters, param)
                        IN  [name |-> param.name,
                             text |-> IF v = None THEN None
                                      ELSE Some(String(v[1]))]]))]_vars

\* a rendering with the supplied 0 and "" in place of the default 5 and of
\* the placeholder, the placeholder of the number replaced twice
C12_Witness ==
    /\ lastOp = "buildPromptFromPreset"
    /\ out = Returned("cut a.mp4 at 0s and 0s encode ")

\* s without the whitespace at its end
trimEnd(s) ==
    LET solid == {i \in 1..Len(s) : ~isSpace(charAt(s, i))}
    IN  IF solid = {} THEN ""
        ELSE SubSeq(s, 1, CHOOSE i \in solid : \A j \in solid : i >= j)

\* the text of a value as the claim normalizes it
normalizedAsStated(param, s) ==
    IF param.type = "select" /\ matchLeadingInteger(s) # None
    THEN matchLeadingInteger(s)[1]
    ELSE IF indexOf(s, "(") # 0 THEN trimEnd(SubSeq(s, 1, indexOf(s, "(") - 1))
         ELSE s

\* the text of a value normalized for a select parameter with options only
normalizedSelectOnly(param, s) ==
    IF param.type = "select" /\ param.options # None
    THEN IF matchLeadingInteger(s) # None THEN matchLeadingInteger(s)[1]
         ELSE IF indexOf(s, "(") # 0
              THEN strTrim(SubSeq(s, 1, indexOf(s, "(") - 1))
              ELSE s
    ELSE s

\* C13 as stated: a value of a select parameter that begins with an integer
\* followed by "(" is rendered as that integer; otherwise a value that
\* contains "(" is rendered cut at the first "(" with the whitespace at its
\* end trimmed; otherwise the value is rendered unchanged.
C13_NormalizedAsStated ==
    [][\A c \in RenderCalls :
        BuildPromptFromPreset(c.presetId, c.parameters) /\ regular(c) =>
            out' = Returned(substituted(presetOf(c)[1].prompt, 1,
                    [k \in 1..Len(presetOf(c)[1].parameters) |->
                        LET param == presetOf(c)[1].parameters[k]
                            v == chosen(c.parameters, param)
                        IN  [name |-> param.name,
                             text |-> IF v = None THEN None
                                      ELSE Some(normalizedAsStated(
                                               param, String(v[1])))]]))]_vars

\* C13 amended: only the value of a select parameter that declares options
\* is normalized: one that begins with digits followed by optional
\* whitespace and "(" is rendered as the digits, any other one that
\* contains "(" is rendered cut at the first "(" with the whitespace at both
\* ends trimmed; every other value is rendered unchanged, "(" included.
C13_NormalizedSelectOnly ==
    [][\A c \in RenderCalls :
        BuildPromptFromPreset(c.presetId, c.parameters) /\ regular(c) =>
            out' = Returned(substituted(presetOf(c)[1].prompt, 1,
                    [k \in 1..Len(presetOf(c)[1].parameters) |->
                        LET param == presetOf(c)[1].parameters[k]
                            v == chosen(c.parameters, param)
                        IN  [name |-> param.name,
                             text |-> IF v = None THEN None
                                      ELSE Some(normalizedSelectOnly(
                                               param, String(v[1])))]]))]_vars

\* the default "without re-encoding (fast)" of a select rendered cut at "("
C13_Witness ==
    /\ lastOp = "buildPromptFromPreset"
    /\ out = Returned("trim a.mp4 from {start} to {end} without re-encoding")

\* C14: buildPromptFromPreset changes neither the custom catalog, usage
\* counts included, nor the presets file, whether it returns a prompt or
\* throws for an id that no preset has.
C14_RenderingReadsOnly ==
    [][lastOp' = "buildPromptFromPreset" =>
        UNCHANGED <<customPresets, presetsFile>>]_vars

\* a prompt was rendered from a custom preset whose use had been counted
C14_Witness ==
    /\ lastOp = "buildPromptFromPreset"
    /\ out.kind = "returned"
    /\ customPresets[1].usageCount >= 1

(***************************************************************************)
(* Properties of the front end                                             *)
(***************************************************************************)
\* C21: every generation attempt of the prompt command and of usePreset
\* makes exactly one history record: after a generation that succeeded, a
\* record with the generated command and no error; after one that failed,
\* a record with the empty command and the error text.
C21_OneRecordPerAttempt ==
    cli.generation # "none" =>
        /\ Len(cli.recorded) = 1
        /\ cli.generation = "succeeded" =>
              /\ cli.recorded[1].command = cli.generated
              /\ cli.recorded[1].error = None
        /\ cli.generation = "failed" =>
              /\ cli.recorded[1].command = <<>>
              /\ cli.recorded[1].error = Some(cli.message)

(***************************************************************************)
(* Properties of the configuration                                         *)
(***************************************************************************)
\* the value the documented order gives a setting: that of the environment
\* variable name the process is started with, else that of config.json,
\* else one of a .env file; None when no source defines it
documented(setting, name) ==
    IF name \in DOMAIN systemEnv THEN {Some(systemEnv[name])}
    ELSE IF setting \in DOMAIN parsedConfig(configFile)
         THEN {Some(parsedConfig(configFile)[setting])}
    ELSE IF \E i \in 1..Len(dotenv) : name \in DOMAIN dotenv[i]
         THEN {Some(dotenv[i][name]) : i \in {j \in 1..Len(dotenv) :
                                                name \in DOMAIN dotenv[j]}}
    ELSE {None}

\* C24: after the configuration is loaded, a setting defined in several
\* sources has the value of the highest-priority source that defines it,
\* in the order environment variable, config.json, .env files.
C24_DocumentedPriority ==
    lastOp = "load" =>
        \A name \in DOMAIN SettingOf :
            field(config, SettingOf[name]) \in documented(SettingOf[name], name)

(***************************************************************************)
(* Properties of importCustomPresets and of the custom presets             *)
(***************************************************************************)
\* the positions of the candidates with non-empty name, prompt and category
candidates(items) ==
    {i \in 1..Len(items) :
        \A k \in {"name", "prompt", "category"} :
            k \in DOMAIN items[i] /\ items[i][k] # ""}

\* C22: importCustomPresets fails with an error when the data does not
\* resolve to an array (a JSON array, or the custom array of an object) and
\* changes nothing; otherwise it returns the number of candidates with
\* non-empty name, prompt and category, which is the number of presets it
\* appended, each with a fresh id, isCustom = true and usageCount = 0.
C22_ImportCount ==
    [][\A data \in ImportData : ImportCustomPresets(data) =>
        IF data.kind \notin {"array", "custom"}
        THEN /\ lastOp' = "importCustomPresets failed"
             /\ UNCHANGED <<customPresets, presetsFile>>
        ELSE LET n == Cardinality(candidates(data.items))
                 old == Len(customPresets)
                 all == getAllPresets(customPresets')
             IN  /\ lastOp' = "importCustomPresets"
                 /\ lastResult' = n
                 /\ Len(customPresets') = old + n
                 /\ SubSeq(customPresets', 1, old) = customPresets
                 /\ \A i \in (old + 1)..(old + n) :
                       /\ customPresets'[i].isCustom
                       /\ customPresets'[i].usageCount = 0
                       /\ \A j \in 1..Len(all) :
                             j # Len(builtInPresets) + i
                                 => all[j].id # customPresets'[i].id]_vars

(***************************************************************************)
(* Properties of importHistory                                             *)
(***************************************************************************)
\* importHistory(JSON.stringify(items), "json")
importOf(items) == [format |-> "json", kind |-> "array", items |-> items]

\* the positions of the payload entries that have a prompt, a command and a
\* provider, none of them empty
passing(items) ==
    {i \in 1..Len(items) :
        /\ "prompt" \in DOMAIN items[i] /\ items[i].prompt # <<>>
        /\ "command" \in DOMAIN items[i] /\ items[i].command # <<>>
        /\ "provider" \in DOMAIN items[i] /\ items[i].provider # ""}

\* C23: an importHistory that returns, returns the number of payload
\* entries that have a prompt, a command and a provider, whether or not it
\* inserted them: an entry skipped as a duplicate is counted.
C23_ReturnsValidCount ==
    [][\A items \in ImportPayloads :
        (ImportHistory(importOf(items)) /\ lastOp' = "importHistory")
            => lastResult' = Cardinality(passing(items))]_vars

\* an import returned a count greater than the number of entries the
\* store holds, none of which save() cut off: it counted a duplicate
C23_Witness ==
    /\ lastOp = "importHistory"
    /\ trimmed = <<>>
    /\ lastResult > Len(history)

\* whether the payload object o holds the number k; with strict, whether it
\* holds one that is not 0
holds(o, k, strict) == k \in DOMAIN o /\ (strict => o[k] # 0)

\* the entry the claim describes for the payload object o: the payload's
\* id, timestamp, executionCount, tags and isFavorite when it holds them,
\* else the fresh id, the time t, 1, no tag and false
described(o, t, id, strict) ==
    [id |-> IF holds(o, "id", strict) THEN o.id ELSE id,
     prompt |-> o.prompt, command |-> o.command, provider |-> o.provider,
     model |-> field(o, "model"),
     timestamp |-> IF holds(o, "timestamp", strict) THEN o.timestamp ELSE t,
     executionCount |-> IF holds(o, "executionCount", strict)
                        THEN o.executionCount ELSE 1,
     tags |-> IF "tags" \in DOMAIN o THEN o.tags ELSE <<>>,
     isFavorite |-> IF "isFavorite" \in DOMAIN o THEN o.isFavorite ELSE FALSE,
     category |-> field(o, "category"), error |-> field(o, "error")]

RECURSIVE appended(_, _, _, _, _)
\* the entries the claim has the import of items append to the store h, in
\* order: those that have a prompt, a command and a provider and whose
\* prompt and command no entry of the store has, the ones appended before
\* them included
appended(h, items, t, id, strict) ==
    IF items = <<>> THEN <<>>
    ELSE IF \/ passing(<<Head(items)>>) = {}
            \/ \E i \in 1..Len(h) : /\ h[i].prompt = Head(items).prompt
                                    /\ h[i].command = Head(items).command
         THEN appended(h, Tail(items), t, id, strict)
         ELSE LET e == described(Head(items), t, id, strict)
              IN  <<e>> \o appended(Append(h, e), Tail(items), t,
                                    IF holds(Head(items), "id", strict)
                                    THEN id ELSE id + 1, strict)

\* C29 as stated: an importHistory of a JSON array that stays within the
\* capacity leaves the store followed by the entries described, which keep
\* the payload's id, timestamp and executionCount whenever the payload
\* holds them.
C29_KeepsWhenPresent ==
    [][\A items \in ImportPayloads :
        (/\ ImportHistory(importOf(items))
         /\ lastOp' = "importHistory"
         /\ trimmed' = <<>>)
            => history' = history \o appended(history, items, now, nextId, FALSE)]_vars

\* C29 amended: the same, the payload's id, timestamp and executionCount
\* being kept when the payload holds them and they are not 0 (not the empty
\* string for the id).
C29_KeepsWhenTruthy ==
    [][\A items \in ImportPayloads :
        (/\ ImportHistory(importOf(items))
         /\ lastOp' = "importHistory"
         /\ trimmed' = <<>>)
            => history' = history \o appended(history, items, now, nextId, TRUE)]_vars

\* an import appended, behind the entry the store had, the payload entry
\* whose executionCount is 0, with its id and an executionCount of 1
C29_Witness ==
    /\ lastOp = "importHistory"
    /\ trimmed = <<>>
    /\ Len(history) = 2
    /\ history[2].id = PayloadZero.id
    /\ history[2].timestamp = PayloadZero.timestamp
    /\ history[2].executionCount = 1

(***************************************************************************)
(* Properties of add, addTags and the queries                              *)
(***************************************************************************)
\* the position of the first entry of h that has the command of entry and
\* its prompt, capitals aside; 0 when there is none
matching(h, entry) ==
    LET hits == entriesOf(h, <<toLowerCase(entry.prompt), entry.command>>)
    IN  IF hits = {} THEN 0 ELSE CHOOSE i \in hits : \A j \in hits : i <= j

\* C25: an add whose prompt and command an entry already has changes that
\* entry's executionCount (+1) and timestamp (now) and nothing else: its
\* other fields and its position, the number of entries and the other
\* entries stay, whatever provider, model, category and error the call
\* passes.
C25_MergeChangesCountAndTime ==
    [][\A entry \in QueryEntries :
        (AddEntry(entry) /\ matching(history, entry) # 0)
            => history' = [history EXCEPT
                              ![matching(history, entry)].executionCount = @ + 1,
                              ![matching(history, entry)].timestamp = now]]_vars

\* an add that passed a model was merged into the second entry of the
\* store, which is now the newer of the two and is still without model
C25_Witness ==
    /\ lastOp = "add"
    /\ Len(history) = 2
    /\ history[2].executionCount = 4
    /\ history[2].timestamp = now
    /\ history[2].timestamp > history[1].timestamp
    /\ history[2].provider = "openai"
    /\ history[2].model = None
    /\ history[2].category = Some("Video")
    /\ history[2].isFavorite

\* the tags of an entry as a set
tagSet(entry) == {entry.tags[t] : t \in 1..Len(entry.tags)}

\* C26: no step removes a tag from an entry that is still in the store
\* after it, and addTags(id, tags) on an entry of the store leaves it with
\* the union of its tags and the given ones, none listed twice, and leaves
\* the rest of the store as it is.
C26_TagsOnlyGrow ==
    [][/\ \A i \in 1..Len(history), j \in 1..Len(history') :
            (/\ history'[j].id = history[i].id
             /\ history'[j].prompt = history[i].prompt
             /\ history'[j].command = history[i].command)
                => tagSet(history[i]) \subseteq tagSet(history'[j])
       /\ \A id \in IdArgs :
            (AddTags(id, <<"work", "gif">>) /\ indexOfId(history, id) # 0)
                => LET i == indexOfId(history, id)
                   IN  /\ Len(history') = Len(history)
                       /\ tagSet(history'[i]) = tagSet(history[i]) \cup {"work", "gif"}
                       /\ Cardinality(tagSet(history'[i])) = Len(history'[i].tags)
                       /\ history' = [history EXCEPT ![i].tags = history'[i].tags]]_vars

\* addTags gave an entry that had the tags of its prompt the tag it lacked
C26_Witness ==
    /\ lastOp = "addTags"
    /\ \E i \in 1..Len(history) :
            history[i].tags = <<"conversion", "gif", "work">>

\* the queries of the store
Queries ==
    {"getRecent", "getFavorites", "getMostUsed", "search", "getByTag",
     "getByCategory", "exportHistory"}

\* C27: a query leaves the store as it is: the array, the order of its
\* entries, the file, and with them the result of search.
C27_QueriesLeaveStore ==
    [][lastOp' \in Queries =>
        /\ history' = history
        /\ file' = file
        /\ \A query \in {chars("gif"), chars("video")} :
                search(history', query) = search(history, query)]_vars

\* the elements of a sequence
elements(s) == {s[i] : i \in 1..Len(s)}

\* C28: getRecent(limit) returns min(limit, size of the store) entries of
\* the store, by timestamp descending, none of them older than an entry it
\* leaves out.
C28_RecentFirst ==
    [][\A limit \in Limits : GetRecentOf(limit) =>
        LET result == out'.entries
        IN  /\ Len(result) = IF limit < Len(history) THEN limit ELSE Len(history)
            /\ elements(result) \subseteq elements(history)
            /\ Cardinality(elements(result)) = Len(result)
            /\ \A i, j \in 1..Len(result) :
                    i < j => result[i].timestamp >= result[j].timestamp
            /\ \A e \in elements(history) \ elements(result) :
                    \A r \in elements(result) : r.timestamp >= e.timestamp]_vars

\* getRecent(1) returned the entry that was second in the file and that a
\* merge made the most recent
C28_Witness ==
    /\ lastOp = "getRecent"
    /\ out.kind = "entries"
    /\ Len(out.entries) = 1
    /\ Len(history) = 2
    /\ out.entries[1].id = OldFavoriteObject.id
    /\ out.entries[1].executionCount = 4
    /\ out.entries[1].timestamp > history[2].timestamp

\* C30: every custom preset has isCustom = true and a usageCount that is a
\* natural number, 0 when the preset is created; the usageCount of a preset
\* changes only by +1 and only in incrementUsageCount; updateCustomPreset
\* on an id that no custom preset has returns false and changes nothing.
C30_UsageCountOnlyIncrements ==
    [][/\ \A i \in 1..Len(customPresets') :
            /\ customPresets'[i].isCustom
            /\ customPresets'[i].usageCount \in Nat
            /\ i > Len(customPresets) => customPresets'[i].usageCount = 0
       /\ Len(customPresets') = Len(customPresets) =>
            \A i \in 1..Len(customPresets) :
                \/ customPresets'[i].usageCount = customPresets[i].usageCount
                \/ /\ customPresets'[i].usageCount = customPresets[i].usageCount + 1
                   /\ lastOp' = "incrementUsageCount"
       /\ \A u \in Updates :
            UpdateCustomPreset(<<"no-such-preset">>, u)
                => /\ lastResult' = 0
                   /\ UNCHANGED <<customPresets, presetsFile>>]_vars

\* the positions at which a command called incrementUsageCount
increments(calls) ==
    {i \in 1..Len(calls) : calls[i] = "incrementUsageCount"}

\* the usageCount of the custom preset id, 0 when there is none
usageOf(ps, id) ==
    IF indexOfPreset(ps, id) = 0 THEN 0
    ELSE ps[indexOfPreset(ps, id)].usageCount

\* the step is usePreset with the call c and the answers a
usesPreset(c, a) ==
    /\ cli'.command = "usePreset"
    /\ cli'.message = a.gen.message
    /\ UsePreset(c.presetId, c.parameters, a.action, a.gen)

\* C31: usePreset calls incrementUsageCount for its preset exactly when the
\* preset is custom, "execute" was chosen and the generation succeeded; it
\* calls it once, after the call of add that put the record of the rendered
\* prompt in the history, and the preset's usageCount grows by the number
\* of calls; on cancel, on copy and on a failed generation there is no call.
C31_CountsAfterRecord ==
    [][\A c \in PresetCalls, a \in Answers :
          usesPreset(c, a) =>
            LET custom == indexOfPreset(customPresets, c.presetId) # 0
                built == buildPromptFromPreset(customPresets, c.presetId,
                                               c.parameters)
                at == increments(cli'.calls)
            IN  /\ at # {} <=> (custom /\ a.action = "execute" /\ a.gen.ok)
                /\ Cardinality(at) <= 1
                /\ \A i \in at :
                      /\ \E j \in 1..(i - 1) : cli'.calls[j] = "add"
                      /\ \E k \in 1..Len(history') :
                            /\ history'[k].prompt = chars(built.text)
                            /\ history'[k].command = a.gen.command
                /\ usageOf(customPresets', c.presetId)
                      = usageOf(customPresets, c.presetId) + Cardinality(at)
                /\ a.action \in {"cancel", "copy"} =>
                      UNCHANGED <<customPresets, presetsFile, history>>]_vars

C31_Witness ==
    /\ cli.command = "usePreset"
    /\ cli.calls = <<"add", "incrementUsageCount">>
    /\ usageOf(customPresets, ClipId) = 2
    /\ \E k \in 1..Len(history) : history[k].executionCount = 2

\* the presets of ps that still carry the id addCustomPreset gave them; the
\* last part of that id numbers the calls of addCustomPreset
stamped(ps) == {i \in 1..Len(ps) : Len(ps[i].id) = 4}

\* C32: when the custom catalog is an array, getAllPresets is the built-in
\* presets followed by the custom presets in the order in which
\* addCustomPreset inserted them; right after addCustomPreset(preset) the
\* last element of getAllPresets is the preset just created, and the
\* elements before it are the ones getAllPresets listed before the call.
C32_NewPresetIsLast ==
    [][LET all == getAllPresets(customPresets')
           n == Len(builtInPresets)
       IN  /\ customIsArray' =>
                /\ Len(all) = n + Len(customPresets')
                /\ \A i \in 1..n : all[i] = builtInPresets[i]
                /\ \A i \in 1..Len(customPresets') :
                      all[n + i] = customPresets'[i]
                /\ \A i, j \in stamped(customPresets') :
                      i < j => all[n + i].id[4] < all[n + j].id[4]
           /\ \A preset \in PresetData :
                AddCustomPreset(preset) =>
                    /\ all[Len(all)].id = customId(now, nextRandom)
                    /\ all[Len(all)].name = preset.name
                    /\ all[Len(all)].usageCount = 0
                    /\ SubSeq(all, 1, Len(all) - 1)
                          = getAllPresets(customPresets)]_vars

C32_Witness ==
    /\ lastOp = "addCustomPreset"
    /\ Len(customPresets) = 2
    /\ customPresets[1].id = <<"convert-to-mp4">>
    /\ getAllPresets(customPresets)[Len(builtInPresets) + 2].id[4] = 3

\* the keys that most entries have, keys being the key of each counted
\* entry in store order
tied(keys) ==
    LET K == {keys[i] : i \in 1..Len(keys)}
        n(k) == Cardinality({i \in 1..Len(keys) : keys[i] = k})
    IN  {k \in K : \A m \in K : n(m) <= n(k)}

\* the position at which the store first has the key k
firstAt(keys, k) ==
    CHOOSE i \in 1..Len(keys) :
        keys[i] = k /\ \A j \in 1..(i - 1) : keys[j] # k

\* among the keys tied for the maximum, the one the store has first
firstEncountered(keys) ==
    CHOOSE k \in tied(keys) :
        \A m \in tied(keys) : firstAt(keys, k) <= firstAt(keys, m)

\* among the keys tied for the maximum, the smallest of those that are
\* array indices, and the one the store has first when none is
firstInKeyOrder(keys) ==
    LET I == {k \in tied(keys) : isIndexKey(k)}
    IN  IF I # {}
        THEN CHOOSE k \in I : \A m \in I : m = k \/ indexBefore(k, m)
        ELSE firstEncountered(keys)

\* a call of getStats repeated on the store as it is answers the same
sameAgain ==
    lastOp = "getStats" /\ lastOp' = "getStats" => out'.stats = out.stats

\* C33 as stated: getStats reports as mostUsedProvider and mostUsedCategory
\* a value that most entries have and, among the values tied for the
\* maximum, the one the store has first; a repeated call answers the same.
C33_FirstEncounteredWins ==
    [][GetStats =>
        LET providers == providerKeys(history)
            categories == categoryKeys(history)
        IN  /\ providers # <<>> =>
                out'.stats.mostUsedProvider = firstEncountered(providers)
            /\ categories # <<>> =>
                out'.stats.mostUsedCategory = firstEncountered(categories)
            /\ sameAgain]_vars

\* C33 amended: among the values tied for the maximum getStats reports the
\* first in the order of the tally's keys, which lists the values that are
\* the decimal text of an array index in ascending order before the others,
\* and the others in the order in which the store has them first.
C33_FirstInKeyOrderWins ==
    [][GetStats =>
        LET providers == providerKeys(history)
            categories == categoryKeys(history)
        IN  /\ providers # <<>> =>
                /\ out'.stats.mostUsedProvider \in tied(providers)
                /\ out'.stats.mostUsedProvider = firstInKeyOrder(providers)
            /\ providers = <<>> => out'.stats.mostUsedProvider = "none"
            /\ categories # <<>> =>
                /\ out'.stats.mostUsedCategory \in tied(categories)
                /\ out'.stats.mostUsedCategory = firstInKeyOrder(categories)
            /\ categories = <<>> =>
                out'.stats.mostUsedCategory = "uncategorized"
            /\ sameAgain]_vars

C33_Witness ==
    /\ lastOp = "getStats"
    /\ categoryKeys(history) = <<"Video", "7">>
    /\ out.stats.mostUsedCategory = "7"
    /\ providerKeys(history) = <<"claude", "openai">>
    /\ out.stats.mostUsedProvider = "claude"

\* s in reverse order
reversed(s) == [i \in 1..Len(s) |-> s[Len(s) + 1 - i]]

\* what a simultaneous substitution makes of the call c: the template read
\* once, each placeholder replaced by the normalized value of its parameter
simultaneous(c) ==
    Returned(substituted(presetOf(c)[1].prompt, 1,
        [k \in 1..Len(presetOf(c)[1].parameters) |->
            LET param == presetOf(c)[1].parameters[k]
                v == chosen(c.parameters, param)
            IN  [name |-> param.name,
                 text |-> IF v = None THEN None
                          ELSE Some(normalizedSelectOnly(param,
                                                         String(v[1])))]]))

\* a call on a preset whose parameter names are made of word characters,
\* with strings and numbers for values and a string for a select
wordNamed(c) ==
    /\ presetOf(c) # None
    /\ \A k \in 1..Len(presetOf(c)[1].parameters) :
        LET param == presetOf(c)[1].parameters[k]
            v == chosen(c.parameters, param)
        IN  v # None =>
                /\ v[1].t \in {"string", "number"}
                /\ param.type = "select" => v[1].t = "string"

\* no value text of the call holds the one-character text mark
without(c, mark) ==
    \A k \in 1..Len(presetOf(c)[1].parameters) :
        LET v == chosen(c.parameters, presetOf(c)[1].parameters[k])
        IN  v # None => indexOf(String(v[1]), mark) = 0

\* no parameter of the call's preset is named by a number
lettered(c) ==
    \A k \in 1..Len(presetOf(c)[1].parameters) :
        ~regExpThrows(presetOf(c)[1].parameters[k].name)

\* C34: for a call whose names hold a letter and whose values hold no "$",
\* buildPromptFromPreset returns the simultaneous substitution, in which a
\* value that holds the placeholder of another parameter stays as it is,
\* and the same text whatever the order of the declared parameters.
C34_SimultaneousSubstitution ==
    [][\A c \in SubstitutionCalls :
        /\ BuildPromptFromPreset(c.presetId, c.parameters)
        /\ wordNamed(c) /\ lettered(c) /\ without(c, "$")
        => /\ out' = simultaneous(c)
           /\ out' = forEachParameter(presetOf(c)[1].prompt,
                                      reversed(presetOf(c)[1].parameters),
                                      c.parameters)]_vars

\* C35: for a call whose names are made of word characters, numbers
\* included, and whose values hold no "{", buildPromptFromPreset returns
\* and puts in place of each {name} the normalized value character for
\* character, "$" sequences included.
C35_ValuesVerbatim ==
    [][\A c \in SubstitutionCalls :
        /\ BuildPromptFromPreset(c.presetId, c.parameters)
        /\ wordNamed(c) /\ without(c, "{")
        => /\ out'.kind = "returned"
           /\ out' = simultaneous(c)]_vars

\* C36: a call of importCustomPresets that fails with an error, whether
\* the data is not JSON, does not resolve to an array or holds a malformed
\* element, leaves the custom catalog and the presets file as they were.
C36_FailedImportKeepsCatalog ==
    [][\A data \in ImportData :
        ImportCustomPresets(data) /\ lastOp' = "importCustomPresets failed"
            => UNCHANGED <<customPresets, presetsFile>>]_vars

\* C37: generateFfmpegCommand called with a provider selector that is none
\* of openai, claude, gemini and grok fails with the error "Unknown model
\* type: ... Supported models: openai, claude, gemini, grok" and does not
\* call generateText.
C37_UnknownProviderError ==
    [][\A model \in Models \ {None}, reply \in Replies :
        Generate(model, reply) /\ lowered(model[1]) \notin Providers
            => /\ cli'.generation = "failed"
               /\ cli'.message = "Unknown model type: " \o model[1]
                     \o ". Supported models: openai, claude, gemini, grok"
               /\ cli'.calls = <<>>]_vars

====
